---- MODULE Spec2Model ----
(***************************************************************************)
(* A model of the supabase-ftp server of the 1tc-platform repository:      *)
(* the control-connection dispatcher and session state, the data-channel   *)
(* connectors and transfer handlers, the passive-port allocator, and the   *)
(* path resolution of the object-store file system.                        *)
(*                                                                         *)
(* Strings the code inspects character by character (paths, addresses)     *)
(* are sequences of one-character strings.                                  *)
(***************************************************************************)
EXTENDS Integers, Sequences, FiniteSets, TLC

(***************************************************************************)
(* Bounds of the model.                                                    *)
(***************************************************************************)
MaxPathLen == 5
MaxCwdLen == 4
NumPorts == 2
NumReqs == 2
MaxRest == 2
MaxBatch == 2
MaxTasks == 2
MaxConnectors == 2
MaxCmds == 5
\* The most objects the bucket holds.
MaxObjects == 3

\* find-port.ts
MAX_PORT_CHECK_ATTEMPT == 5

(***************************************************************************)
(* String helpers (JavaScript String methods used by the code).            *)
(***************************************************************************)
RECURSIVE DropWhileIn(_, _)
DropWhileIn(s, cs) ==
    IF s = <<>> THEN <<>>
    ELSE IF Head(s) \in cs THEN DropWhileIn(Tail(s), cs) ELSE s

RECURSIVE DropEndWhileIn(_, _)
DropEndWhileIn(s, cs) ==
    IF s = <<>> THEN <<>>
    ELSE IF s[Len(s)] \in cs THEN DropEndWhileIn(SubSeq(s, 1, Len(s) - 1), cs)
    ELSE s

StartsWith(s, p) == Len(s) >= Len(p) /\ SubSeq(s, 1, Len(p)) = p

\* String.prototype.trim: the model's only whitespace character is the space.
Trim(s) == DropEndWhileIn(DropWhileIn(s, {" "}), {" "})

\* replace(/[/\\]+/g, '/')
RECURSIVE CollapseSlashes(_)
CollapseSlashes(s) ==
    IF s = <<>> THEN <<>>
    ELSE IF Head(s) \in {"/", "\\"}
         THEN <<"/">> \o CollapseSlashes(DropWhileIn(Tail(s), {"/", "\\"}))
         ELSE <<Head(s)>> \o CollapseSlashes(Tail(s))

\* split('/').filter(Boolean)
RECURSIVE Segments(_)
Segments(s) ==
    LET t == DropWhileIn(s, {"/"}) IN
    IF t = <<>> THEN <<>>
    ELSE LET n == CHOOSE k \in 1..Len(t) :
                    /\ \A i \in 1..k : t[i] # "/"
                    /\ (k = Len(t) \/ t[k + 1] = "/")
         IN <<SubSeq(t, 1, n)>> \o Segments(SubSeq(t, n + 1, Len(t)))

\* join('/')
RECURSIVE JoinSlash(_)
JoinSlash(segs) ==
    IF segs = <<>> THEN <<>>
    ELSE IF Len(segs) = 1 THEN segs[1]
    ELSE segs[1] \o <<"/">> \o JoinSlash(Tail(segs))

(***************************************************************************)
(* SupabaseFileSystem: path resolution.                                    *)
(***************************************************************************)
LowerAlnum == {"a", "b", "c", "d", "e", "f", "g", "h", "i", "j", "k", "l", "m",
               "n", "o", "p", "q", "r", "s", "t", "u", "v", "w", "x", "y", "z",
               "0", "1", "2", "3", "4", "5", "6", "7", "8", "9"}

\* /^[a-z0-9][a-z0-9-_]*[a-z0-9]$|^[a-z0-9]$/
BUCKET_NAME_REGEX(b) ==
    /\ Len(b) >= 1
    /\ b[1] \in LowerAlnum /\ b[Len(b)] \in LowerAlnum
    /\ \A i \in 2..(Len(b) - 1) : b[i] \in LowerAlnum \cup {"-", "_"}

\* The bucket prefix of the configured root "bucket/p".
bucketPrefix == <<"p">>

normalizePath(path) ==
    Trim(DropEndWhileIn(DropWhileIn(CollapseSlashes(path), {"/"}), {"/"}))

\* resolveRootPath, called by the constructor of the file system: err
\* where it throws.
resolveRootPath(root) ==
    LET trimmedRoot == Trim(root)
        segs == Segments(normalizePath(trimmedRoot))
        bucketName == IF segs = <<>> THEN <<>> ELSE segs[1]
    IN IF trimmedRoot = <<>> \/ trimmedRoot = <<"/">> THEN [err |-> TRUE, bucketName |-> <<>>]
       ELSE IF bucketName = <<>> \/ ~BUCKET_NAME_REGEX(bucketName)
       THEN [err |-> TRUE, bucketName |-> <<>>]
       ELSE IF Len(bucketName) > 63 THEN [err |-> TRUE, bucketName |-> <<>>]
       ELSE [err |-> FALSE, bucketName |-> bucketName]

\* The '..' clamp of _resolvePath: the loop over the segments.
RECURSIVE SafeSegments(_, _)
SafeSegments(segs, acc) ==
    IF segs = <<>> THEN acc
    ELSE IF Head(segs) = <<".", ".">>
         THEN SafeSegments(Tail(segs),
                 IF Len(acc) > 0 THEN SubSeq(acc, 1, Len(acc) - 1) ELSE acc)
    ELSE IF Head(segs) = <<".">> THEN SafeSegments(Tail(segs), acc)
    ELSE SafeSegments(Tail(segs), Append(acc, Head(segs)))

_resolvePath(cwd, dir) ==
    LET normalizedDir == normalizePath(dir) IN
    IF normalizedDir = <<".">> \/ normalizedDir = <<>>
    THEN LET fsPath == IF cwd = <<"/">> THEN bucketPrefix
                       ELSE normalizePath(DropWhileIn(cwd, {"/"}))
         IN [clientPath |-> cwd,
             fsPath |-> IF bucketPrefix # <<>> /\ fsPath # <<>> /\ fsPath # bucketPrefix
                        THEN bucketPrefix \o <<"/">> \o fsPath
                        ELSE IF bucketPrefix # <<>> THEN bucketPrefix ELSE fsPath]
    ELSE LET joined == IF StartsWith(dir, <<"/">>)
                       THEN <<"/">> \o normalizedDir
                       ELSE <<"/">> \o normalizePath(cwd \o <<"/">> \o normalizedDir)
             safe == SafeSegments(Segments(joined), <<>>)
             clientPath == <<"/">> \o JoinSlash(safe)
             fsPath == normalizePath(DropWhileIn(clientPath, {"/"}))
         IN [clientPath |-> clientPath,
             fsPath |-> IF bucketPrefix # <<>>
                        THEN bucketPrefix \o (IF fsPath # <<>> THEN <<"/">> \o fsPath ELSE <<>>)
                        ELSE fsPath]

(***************************************************************************)
(* State.                                                                  *)
(*   fsCwd, fsRes          the file system (specification SpecFs)          *)
(*   portCurrent, req,                                                     *)
(*   lastReturn            the passive-port allocator (SpecPorts)          *)
(***************************************************************************)
VARIABLES fsCwd, fsRes, portCurrent, req, lastReturn, connection, budget,
          acceptor, feed, store, server, rename

fsVars == <<fsCwd, fsRes>>
portVars == <<portCurrent, req, lastReturn>>
sessVars == <<connection, budget>>
limVars == <<acceptor, feed>>
storeVars == <<store>>
srvVars == <<server>>
renVars == <<rename>>
vars == <<fsCwd, fsRes, portCurrent, req, lastReturn, connection, budget,
          acceptor, feed, store, server, rename>>

(***************************************************************************)
(* The file system: cwd and the paths it resolves.                         *)
(***************************************************************************)
NoRes == [clientPath |-> <<>>, fsPath |-> <<>>, set |-> FALSE]

PathChars == {"/", ".", " ", "a"}
PathArgs == UNION {[1..k -> PathChars] : k \in 0..MaxPathLen}

\* INVALID_CHARS_REGEX
InvalidChars == {"<", ">", ":", "\"", "|", "?", "*"}

FsInit ==
    /\ fsCwd = <<"/">>
    /\ fsRes = NoRes

\* A call of _resolvePath by any operation of the file system (get, read,
\* write, list, mkdir, ...): the result handed to the object store.
FsResolve(dir) ==
    /\ fsRes.set = FALSE
    /\ LET r == _resolvePath(fsCwd, dir) IN
       fsRes' = [clientPath |-> r.clientPath, fsPath |-> r.fsPath, set |-> TRUE]
    /\ UNCHANGED fsCwd
    /\ UNCHANGED <<portVars, sessVars, limVars, storeVars, srvVars, renVars>>

FsReturn ==
    /\ fsRes.set
    /\ fsRes' = NoRes
    /\ UNCHANGED fsCwd
    /\ UNCHANGED <<portVars, sessVars, limVars, storeVars, srvVars, renVars>>

\* chdir: `exists` is the answer of storage.list(fsPath, {limit: 1}).
chdir(path, exists) ==
    /\ fsRes.set = FALSE
    /\ LET r == _resolvePath(fsCwd, path) IN
       IF path = <<"/">> THEN fsCwd' = <<"/">>
       ELSE IF r.clientPath = <<"/">> \/ r.fsPath = <<>> \/ r.fsPath = bucketPrefix
            THEN fsCwd' = <<"/">>
       ELSE IF \E i \in 1..Len(r.fsPath) : r.fsPath[i] \in InvalidChars
            THEN UNCHANGED fsCwd
       ELSE IF exists /\ Len(r.clientPath) <= MaxCwdLen
            THEN fsCwd' = r.clientPath
       ELSE UNCHANGED fsCwd
    /\ UNCHANGED fsRes
    /\ UNCHANGED <<portVars, sessVars, limVars, storeVars, srvVars, renVars>>

(***************************************************************************)
(* The passive-port allocator (getNextPortFactory) and the passive         *)
(* listeners opened on the ports it returns.  A request is one call of     *)
(* PassiveConnector.setupServer by some session; requests of different     *)
(* sessions interleave at every asynchronous step.                         *)
(***************************************************************************)
Ports == 1..NumPorts
Reqs == 1..NumReqs

NoReturn == [port |-> 0, to |-> 0, listening |-> FALSE]

PortsInit ==
    /\ portCurrent = 1
    /\ req = [r \in Reqs |-> [pc |-> "idle", attemptCount |-> 0, port |-> 0]]
    /\ lastReturn = NoReturn

\* portNumberGenerator: the value of one next() and the generator's state after it.
portNumberGenerator(current) ==
    LET c == IF current > NumPorts THEN 1 ELSE current IN
    [value |-> c, current |-> c + 1]

\* A listening socket, of a probe or of a passive data server, holds the port.
PortInUse(p) ==
    \E r \in Reqs : req[r].port = p /\ req[r].pc \in {"probeListening", "listening"}

PassiveListening(p) ==
    \E r \in Reqs : req[r].port = p /\ req[r].pc = "listening"

\* tryGetPort: count the attempt, take the generator's next port, listen on it.
tryGetPort(r, attemptCount) ==
    IF attemptCount + 1 > MAX_PORT_CHECK_ATTEMPT
    THEN /\ req' = [req EXCEPT ![r] = [pc |-> "idle", attemptCount |-> 0, port |-> 0]]
         /\ UNCHANGED portCurrent
    ELSE LET g == portNumberGenerator(portCurrent) IN
         /\ req' = [req EXCEPT ![r] = [pc |-> "probe", attemptCount |-> attemptCount + 1,
                                        port |-> g.value]]
         /\ portCurrent' = g.current

\* setupServer calls getNextPassivePort.
getNextPort(r) ==
    /\ req[r].pc = "idle"
    /\ tryGetPort(r, 0)
    /\ UNCHANGED lastReturn
    /\ UNCHANGED <<fsVars, sessVars, limVars, storeVars, srvVars, renVars>>

\* A probe that fails only on a port another probe holds.
ProbeFailsOnProbes(p) ==
    \E r \in Reqs : req[r].port = p /\ req[r].pc = "probeListening"

\* Does the probe's listen(port, host) fail with EADDRINUSE?
ProbeFails(p) == PortInUse(p)

\* The outcome of portCheckServer.listen: 'error' EADDRINUSE retries with the
\* next port, 'listening' leaves the probe holding the port.
ProbeListen(r) ==
    /\ req[r].pc = "probe"
    /\ IF ProbeFails(req[r].port)
       THEN tryGetPort(r, req[r].attemptCount)
       ELSE /\ req' = [req EXCEPT ![r].pc = "probeListening"]
            /\ UNCHANGED portCurrent
    /\ UNCHANGED lastReturn
    /\ UNCHANGED <<fsVars, sessVars, limVars, storeVars, srvVars, renVars>>

\* portCheckServer.close(() => resolve(port)): the allocator returns the port.
ProbeClose(r) ==
    /\ req[r].pc = "probeListening"
    /\ req' = [req EXCEPT ![r].pc = "returned"]
    /\ lastReturn' = [port |-> req[r].port, to |-> r,
                      listening |-> PassiveListening(req[r].port)]
    /\ UNCHANGED portCurrent
    /\ UNCHANGED <<fsVars, sessVars, limVars, storeVars, srvVars, renVars>>

\* dataServer.listen(port, hostname): on EADDRINUSE the 'error' listener only
\* reports it and the listener never opens.
DataServerListen(r) ==
    /\ req[r].pc = "returned"
    /\ req' = [req EXCEPT ![r].pc = IF PortInUse(req[r].port) THEN "failed" ELSE "listening",
                           ![r].attemptCount = 0]
    /\ UNCHANGED <<portCurrent, lastReturn>>
    /\ UNCHANGED <<fsVars, sessVars, limVars, storeVars, srvVars, renVars>>

\* Connector.closeServer on the passive listener (end of transfer, idle timeout).
closeServer(r) ==
    /\ req[r].pc \in {"listening", "failed"}
    /\ req' = [req EXCEPT ![r] = [pc |-> "idle", attemptCount |-> 0, port |-> 0]]
    /\ UNCHANGED <<portCurrent, lastReturn>>
    /\ UNCHANGED <<fsVars, sessVars, limVars, storeVars, srvVars, renVars>>

(***************************************************************************)
(* The session: one Connection, its command registry, its connectors and   *)
(* the handler invocations in progress.                                    *)
(***************************************************************************)
\* The directives the model's client sends.  FROB is in no registry.
Directives == {"USER", "PASS", "QUIT", "NOOP", "FROB", "REST", "RNFR", "RNTO",
               "PASV", "RETR", "STOR", "APPE", "LIST", "ABOR", "SYST", "OPTS", "SITE"}

\* The roots the server's login listener resolves with, by password: a
\* bucket with a prefix, and '/'.
LoginRoots == << <<"/", "b", "/", "p">>, <<"/">> >>

\* A message: a directive and its argument.  arg = 0 is a missing argument;
\* the argument of REST is the byte count, any other a name.
Messages ==
    {[dir |-> d, arg |-> 1] : d \in Directives}
    \cup {[dir |-> "REST", arg |-> n] : n \in 1..MaxRest}
    \cup {[dir |-> "PASS", arg |-> n] : n \in DOMAIN LoginRoots}
    \cup {[dir |-> d, arg |-> 0] : d \in {"REST", "RNTO", "RETR", "OPTS", "SITE"}}

\* registry.ts: the directives of the registered commands.
REGISTRY == {"ABOR", "ALLO", "APPE", "AUTH", "CDUP", "XCUP", "CWD", "XCWD", "DELE",
             "EPRT", "EPSV", "FEAT", "HELP", "LIST", "MDTM", "MKD", "XMKD", "MLSD",
             "MLST", "MODE", "NLST", "NOOP", "OPTS", "PASS", "PASV", "PBSZ", "PORT",
             "PROT", "PWD", "XPWD", "QUIT", "REST", "RETR", "RMD", "XRMD", "RNFR",
             "RNTO", "SITE", "SIZE", "STAT", "STOR", "STOU", "STRU", "SYST", "TYPE",
             "USER"}

\* flags.no_auth of the registered commands whose source is at hand.
no_auth == {"PASS", "QUIT", "HELP", "FEAT", "AUTH", "NOOP", "PBSZ", "SYST"}

\* flags.no_auth of USER and PROT, whose handlers are described by the
\* specification only.
no_auth_user_prot == {"USER", "PROT"}

TransferDirectives == {"RETR", "STOR", "APPE"}
ListDirectives == {"LIST"}

\* The directives whose handlers make a new connector object.
ConnectorDirectives == {"PASV", "PORT", "EPRT"}

\* The directives of the sessions that set up active data connections and
\* change the transfer parameters.
ActiveDirectives == {"USER", "PASS", "QUIT", "REST", "PORT", "EPRT", "ALLO",
                     "TYPE", "OPTS"}

(***************************************************************************)
(* Addresses.                                                              *)
(***************************************************************************)
MappedPrefix == <<":", ":", "f", "f", "f", "f", ":">>
Addr10_1 == <<"1", "0", ".", "0", ".", "0", ".", "1">>
Addr10_2 == <<"1", "0", ".", "0", ".", "0", ".", "2">>
Addr127 == <<"1", "2", "7", ".", "0", ".", "0", ".", "1">>
Addr127_2 == <<"1", "2", "7", ".", "0", ".", "0", ".", "2">>
AddrV6Loop == <<":", ":", "1">>
AddrFE80 == <<"f", "e", "8", "0", ":", ":", "a">>
AddrFE80Upper == <<"F", "E", "8", "0", ":", ":", "A">>
AddrMappedUpper == <<":", ":", "F", "F", "F", "F", ":">> \o Addr10_1

\* remoteAddress of the control socket, over the sessions the model follows.
ControlAddrs == {MappedPrefix \o Addr10_1, Addr127, AddrFE80Upper}

\* remoteAddress of a socket connecting to a passive listener; <<>> is the
\* undefined address of a socket that is already closed.
DataAddrs == {Addr10_1, Addr10_2, AddrMappedUpper, Addr127, Addr127_2, AddrV6Loop,
              MappedPrefix \o Addr127, AddrFE80, <<>>}

\* String.prototype.toLowerCase over the letters of an address.
toLowerCase(s) ==
    [i \in 1..Len(s) |->
        CASE s[i] = "A" -> "a" [] s[i] = "B" -> "b" [] s[i] = "C" -> "c"
          [] s[i] = "D" -> "d" [] s[i] = "E" -> "e" [] s[i] = "F" -> "f"
          [] OTHER -> s[i]]

normalizeAddress(addr) ==
    toLowerCase(IF StartsWith(addr, MappedPrefix)
                THEN SubSeq(addr, Len(MappedPrefix) + 1, Len(addr))
                ELSE addr)

isLoopback(addr) ==
    addr = Addr127 \/ addr = AddrV6Loop \/ StartsWith(addr, <<"1", "2", "7", ".">>)

\* A comparison that stops after the loopback test.
validateLoopbackOnly(commandAddr, dataAddr) ==
    ~(isLoopback(normalizeAddress(commandAddr)) /\ ~isLoopback(normalizeAddress(dataAddr)))

validateClientAddress(commandAddr, dataAddr) ==
    LET normalizedCommand == normalizeAddress(commandAddr)
        normalizedData == normalizeAddress(dataAddr)
    IN IF isLoopback(normalizedCommand) /\ ~isLoopback(normalizedData)
       THEN FALSE
       ELSE normalizedCommand = normalizedData

\* The hosts that the arguments of PORT and EPRT name; PORT builds its host
\* from four decimal numbers, so it names the dotted ones only.
ActiveHosts == <<Addr10_1, Addr127, AddrFE80>>
PortHosts == {n \in DOMAIN ActiveHosts : "." \in {ActiveHosts[n][i] : i \in 1..Len(ActiveHosts[n])}}

Zeros(n) == [i \in 1..n |-> 0]

\* toUInt8Array over the addresses of the model: four bytes of a dotted
\* address, sixteen of one with colons (parseWords reads the hexadecimal
\* words in either case and a dotted tail as octets).
toUInt8Array(addr) ==
    CASE addr = Addr10_1 -> <<10, 0, 0, 1>>
      [] addr = Addr10_2 -> <<10, 0, 0, 2>>
      [] addr = Addr127 -> <<127, 0, 0, 1>>
      [] addr = Addr127_2 -> <<127, 0, 0, 2>>
      [] addr = MappedPrefix \o Addr10_1 -> Zeros(10) \o <<255, 255, 10, 0, 0, 1>>
      [] addr = AddrMappedUpper -> Zeros(10) \o <<255, 255, 10, 0, 0, 1>>
      [] addr = MappedPrefix \o Addr127 -> Zeros(10) \o <<255, 255, 127, 0, 0, 1>>
      [] addr = AddrV6Loop -> Zeros(15) \o <<1>>
      [] addr = AddrFE80 -> <<254, 128>> \o Zeros(13) \o <<10>>
      [] addr = AddrFE80Upper -> <<254, 128>> \o Zeros(13) \o <<10>>

\* The 16-bit word of index `index' (from 0) of a byte array.
getWordAtIndex(bytes, index) == bytes[index * 2 + 1] * 256 + bytes[index * 2 + 2]

\* isEqual of @1tc/utils/ip: byte by byte within one protocol; across
\* protocols the IPv6 address has to hold the IPv4 one behind ten zero bytes
\* and a sixth word of 0xffff or 0.
isEqual(addr1, addr2) ==
    LET a0 == toUInt8Array(addr1)
        b0 == toUInt8Array(addr2)
        a == IF Len(b0) = 4 THEN b0 ELSE a0
        b == IF Len(b0) = 4 THEN a0 ELSE b0
    IN IF Len(a0) = Len(b0)
       THEN \A i \in 1..Len(a0) : a0[i] = b0[i]
       ELSE /\ \A i \in 1..10 : b[i] = 0
            /\ getWordAtIndex(b, 5) \in {65535, 0}
            /\ \A i \in 1..4 : a[i] = b[i + 12]

\* The messages of the sessions that set up active data connections: the
\* argument of PORT and EPRT names one of ActiveHosts, that of TYPE is A
\* or I, that of OPTS is UTF8 OFF.
ActiveMessages ==
    {[dir |-> d, arg |-> 1] : d \in ActiveDirectives \ {"OPTS", "PORT", "EPRT"}}
    \cup {[dir |-> "PORT", arg |-> n] : n \in {0} \cup PortHosts}
    \cup {[dir |-> "EPRT", arg |-> n] : n \in {0} \cup DOMAIN ActiveHosts}
    \cup {[dir |-> d, arg |-> 0] : d \in {"ALLO", "TYPE"}}
    \cup {[dir |-> d, arg |-> 2] : d \in {"TYPE", "OPTS"}}

(***************************************************************************)
(* The state of the session.  `connection' holds the fields of the         *)
(* Connection object, of its Commands object and of the command socket,    *)
(* the Connector objects it created (connectors; 0 names the base          *)
(* Connector, which has neither listener nor socket), the invocations of   *)
(* _handleData in progress (tasks), the last reply code the client read on *)
(* the control socket (lastCtrl), and what the last step did (dispatched,  *)
(* opened, completed).                                                     *)
(***************************************************************************)
Tasks == 1..MaxTasks
Slots == 1..MaxConnectors

NoTask == [pc |-> "free", dir |-> "", n |-> 0, c |-> 0, piped |-> FALSE,
           w150 |-> FALSE, term |-> 0, after |-> {}, overtaken |-> FALSE,
           w |-> 0]
NoConnector == [srv |-> "none", sock |-> "null", peer |-> <<>>, timer |-> FALSE,
                adopted |-> 0]

NoDispatch == [dir |-> "", arg |-> 0, ok |-> FALSE, authenticated |-> FALSE,
               destroyed |-> FALSE, closeLetter |-> 0, connector |-> 0,
               running |-> {}, outcome |-> ""]
NoOpen == [dir |-> "", start |-> 0, restByteCount |-> 0, previousCommand |-> ""]
NoComplete == [dir |-> "", task |-> 0, restByteCount |-> 0, renameFrom |-> 0,
               w150 |-> FALSE, term |-> 0, err |-> "", ran |-> FALSE, c |-> 0,
               dataWritable |-> FALSE]
\* What an ABOR handler did: whether waitForConnection gave it a socket and
\* whether that socket took the write, what it wrote and ended, in order,
\* and the state of the control connection when it was invoked.
NoAbort == [done |-> FALSE, socket |-> FALSE, writable |-> FALSE, log |-> <<>>,
            destroyed |-> FALSE, closeLetter |-> 0, authenticated |-> FALSE]

\* Server options: the address of the client and the command lists.
Configs ==
    {[remoteAddress |-> MappedPrefix \o Addr10_1, blacklist |-> {}, whitelist |-> {}],
     [remoteAddress |-> Addr127, blacklist |-> {"RNFR", "NOOP"}, whitelist |-> {}],
     [remoteAddress |-> AddrFE80Upper, blacklist |-> {},
      whitelist |-> (Directives \cup ActiveDirectives) \ {"RNTO", "FROB"}]}

\* new Connection(server, socket), new Commands(connection)
Connection(cfg) ==
    [accepted |-> TRUE,
     remoteAddress |-> cfg.remoteAddress,
     blacklist |-> cfg.blacklist,
     whitelist |-> cfg.whitelist,
     previousCommand |-> "",
     authenticated |-> FALSE,
     username |-> FALSE,
     fs |-> FALSE,
     restByteCount |-> 0,
     renameFrom |-> 0,
     transferType |-> "binary",
     encoding |-> "utf8",
     destroyed |-> FALSE,
     paused |-> FALSE,
     closed |-> FALSE,
     closeLetter |-> 0,
     connector |-> 0,
     connectors |-> [c \in Slots |-> NoConnector],
     tasks |-> [t \in Tasks |-> NoTask],
     lastCtrl |-> 0,
     wrote |-> <<>>,
     io |-> <<>>,
     late |-> FALSE,
     failing |-> FALSE,
     failed |-> 0,
     broken |-> FALSE,
     registered |-> FALSE,
     ended |-> 0,
     dispatched |-> NoDispatch,
     opened |-> NoOpen,
     completed |-> NoComplete,
     aborted |-> NoAbort,
     unhandled |-> FALSE,
     exited |-> FALSE]

\* No client has connected yet.
NoConnection ==
    [Connection([remoteAddress |-> <<>>, blacklist |-> {}, whitelist |-> {}])
        EXCEPT !.accepted = FALSE]

Clear(s) == [s EXCEPT !.dispatched = NoDispatch, !.opened = NoOpen,
                      !.completed = NoComplete, !.aborted = NoAbort,
                      !.wrote = <<>>, !.io = <<>>, !.late = FALSE,
                      !.failed = 0]

\* A catch of reply that writes its 451 whatever the state of the socket.
replyCatchUnchecked(s) == [s EXCEPT !.lastCtrl = 451, !.wrote = Append(@, 451)]

\* The catch of reply: 451 on the control socket if it is writable.
replyCatch(s) ==
    IF s.destroyed THEN s
    ELSE [s EXCEPT !.lastCtrl = 451, !.wrote = Append(@, 451)]

\* The callback of socket.write is handed an error: processLetter rejects,
\* mapSeries hands out no further letter, and the catch runs.  The stream
\* that reports the error is errored and destroys itself.
\* failed is the place the reply would have had among those of the step.
writeFails(s) ==
    replyCatch([s EXCEPT !.failing = FALSE, !.failed = Len(s.wrote) + 1,
                         !.broken = TRUE, !.destroyed = TRUE])

\* Connection.reply on the control socket: processLetter writes when the
\* socket is writable; otherwise it rejects, and the catch writes its 451
\* only to a writable control socket.
reply(before, code) ==
    CHOOSE o \in {IF s.destroyed THEN s
                  ELSE IF s.failing THEN writeFails(s)
                  ELSE [s EXCEPT !.lastCtrl = code, !.wrote = Append(@, code)] :
                  s \in {before}} : TRUE

\* A reply of the transfer handler running as task t.
replyOf(before, t, code) ==
    CHOOSE o \in {IF s.destroyed THEN s
                  ELSE IF s.failing THEN writeFails(s)
                  ELSE [s EXCEPT !.lastCtrl = code, !.wrote = Append(@, code),
                                 !.tasks[t].term = IF @ < 2 THEN @ + 1 ELSE @] :
                  s \in {before}} : TRUE

\* Connection.close: reply(code) is started and not awaited; the next
\* microtask destroys the command socket.
close(s, code) == [s EXCEPT !.closeLetter = code, !.destroyed = TRUE]

\* An end that closes the data socket and leaves the listener open.
endSocketOnly(s, c) ==
    IF c = 0 THEN [s EXCEPT !.connector = 0]
    ELSE [s EXCEPT !.connectors[c].sock = "null", !.connector = 0]

\* Connector.end of the connector object c: closeSocket, closeServer, and
\* the connection gets a fresh base Connector.
end(s, c) ==
    IF c = 0 THEN [s EXCEPT !.connector = 0]
    ELSE [s EXCEPT !.connectors[c].sock = "null",
                   !.connectors[c].srv = IF @ = "listening" THEN "closing" ELSE @,
                   !.connectors[c].timer = FALSE,
                   !.connector = 0]

\* The handler invoked for task t has not settled its promise.
Running(s, t) == s.tasks[t].pc \in {"wait", "paused", "xfer"}

\* The order of the replies: r is the session after a step of the handler
\* of task t, s the session before it.  When the step wrote a reply, the
\* handlers that were invoked before t's and still run are overtaken; the
\* step is late when t's handler had been overtaken itself.  A handler
\* that has settled is forgotten by the others.
\* (A bound variable over a set of one element holds the value of its
\* expression, which is then worked out once.)
order(after, s, t) ==
    LET ordered(r) ==
            LET wrote == r.wrote # <<>>
                gone == {u \in Tasks : ~Running(r, u)}
            IN [r EXCEPT !.late = wrote /\ s.tasks[t].overtaken,
                         !.tasks = [u \in Tasks |->
                             IF u \in gone THEN r.tasks[u]
                             ELSE [r.tasks[u] EXCEPT
                                     !.after = @ \ gone,
                                     !.overtaken = @ \/ (wrote /\ u \in s.tasks[t].after)]]]
    IN CHOOSE o \in {ordered(r) : r \in {after}} : TRUE

\* The promise of commands.handle resolves without a handler having run.
next(s, t, more) ==
    LET k == s.tasks[t] IN
    [s EXCEPT !.tasks[t] = IF more /\ k.n < MaxBatch
                           THEN [NoTask EXCEPT !.pc = "ready", !.n = k.n]
                           ELSE NoTask]

\* The handler throws or its promise rejects: so does the promise of
\* commands.handle, and with it mapSeries, which hands out no further
\* message of the data event.  Nothing catches the rejection of the promise
\* that _handleData returned to the 'data' emitter.
reject(s, t) ==
    [s EXCEPT !.tasks[t] = NoTask, !.unhandled = TRUE,
              !.dispatched.outcome = "rejected"]

\* The handler's promise resolves: handle records previousCommand and
\* mapSeries goes on to the next message of the data event, if any.
complete(settled, t, more) ==
    LET completed(s) ==
            LET k == s.tasks[t] IN
            [s EXCEPT !.previousCommand = k.dir,
                      !.completed = [dir |-> k.dir, task |-> t,
                                     restByteCount |-> s.restByteCount,
                                     renameFrom |-> s.renameFrom,
                                     w150 |-> k.w150, term |-> k.term, err |-> "",
                                     ran |-> FALSE, c |-> k.w,
                                     dataWritable |-> FALSE]]
    IN next(CHOOSE o \in {completed(s) : s \in {settled}} : TRUE, t, more)

\* The last then of a transfer or listing handler.
endAndResume(replied, t, more) ==
    LET ended(s) == [end(s, s.connector) EXCEPT !.paused = FALSE] IN
    [complete(CHOOSE o \in {ended(s) : s \in {replied}} : TRUE, t, more)
        EXCEPT !.completed.ran = TRUE]

\* The error waitForConnection's timeout rejects with: a plain Error.
ConnectionTimeout == "Error: FTP passive connection timeout"

\* The catch of a transfer or listing handler; TimeoutError and
\* ConnectorError are tested with instanceof.
catch(s, t, err, more) ==
    LET dir == s.tasks[t].dir
        code == IF dir \in ListDirectives
                THEN (IF err \in {"TimeoutError", "ConnectorError"} THEN 425 ELSE 451)
                ELSE (IF err = "TimeoutError" THEN 425 ELSE 550)
    IN [endAndResume(replyOf(s, t, code), t, more) EXCEPT !.completed.err = err]

\* The condition of PassiveConnector.waitForConnection's checkSocket.
checkSocket(s, c) ==
    /\ s.connectors[c].srv = "listening"
    /\ s.connectors[c].sock = "open"

\* waitForConnection resolved: the handler pauses the command socket.
obtained(s, t, c) ==
    [s EXCEPT !.paused = TRUE, !.tasks[t].pc = "paused", !.tasks[t].c = c,
              !.tasks[t].w = c]

\* connector.waitForConnection() as called by a handler.
waitForConnection(s, t, more) ==
    LET c == s.connector IN
    IF c = 0 \/ s.connectors[c].srv # "listening"
    THEN catch(s, t, "ConnectorError", more)
    ELSE IF checkSocket(s, c) THEN obtained(s, t, c)
    ELSE [s EXCEPT !.tasks[t].pc = "wait", !.tasks[t].c = c]

(***************************************************************************)
(* The command handlers.  `ok' is the answer of the collaborator the       *)
(* handler calls (the login listener, the file system, the port            *)
(* allocator); `more' tells whether the data event holds a further         *)
(* message.                                                                *)
(***************************************************************************)
\* USER: sets the user name and asks for the password.
user(s, t, m, more) ==
    complete(reply([s EXCEPT !.username = TRUE], 331), t, more)

\* Connection.login once the login listener resolved with root: the then
\* sets authenticated and then builds the file system, whose constructor
\* throws on a root that resolveRootPath refuses.
login(s, root) ==
    IF resolveRootPath(root).err THEN [s EXCEPT !.authenticated = TRUE]
    ELSE [s EXCEPT !.authenticated = TRUE, !.fs = TRUE]

pass(s, t, m, ok, more) ==
    IF ~s.username THEN complete(reply(s, 503), t, more)
    ELSE IF s.authenticated THEN complete(reply(s, 202), t, more)
    ELSE IF m.arg = 0 THEN complete(reply(s, 501), t, more)
    ELSE IF ok
    THEN LET s1 == login(s, LoginRoots[m.arg]) IN
         complete(reply(s1, IF s1.fs THEN 230 ELSE 530), t, more)
    ELSE complete(reply(s, 530), t, more)

quit(s, t, more) == complete(close(s, 221), t, more)

syst(s, t, more) == complete(reply(s, 215), t, more)

\* OPTS: 501 without an argument; the arguments the model sends are
\* UTF8 ON (1) and UTF8 OFF (2).
opts(s, t, m, more) ==
    IF m.arg = 0 THEN complete(reply(s, 501), t, more)
    ELSE complete(reply([s EXCEPT !.encoding = IF m.arg = 1 THEN "utf8" ELSE "ascii"],
                        200), t, more)

\* TYPE: the arguments the model sends are A (1) and I (2).
type(s, t, m, more) ==
    IF m.arg = 0 THEN complete(reply(s, 501), t, more)
    ELSE complete(reply([s EXCEPT !.transferType = IF m.arg = 1 THEN "ascii"
                                                   ELSE "binary"], 200), t, more)

\* An ALLO that takes the restart offset back.
alloResets(s, t, more) == complete(reply([s EXCEPT !.restByteCount = 0], 202), t, more)

\* ALLO: 202 and nothing else.
allo(s, t, more) == complete(reply(s, 202), t, more)

\* SITE: the handler parses its argument as a command, and parse throws on
\* the empty string; the sub-command the model sends is in no registry.
site(s, t, m, more) ==
    IF m.arg = 0 THEN reject(s, t)
    ELSE complete(reply(s, 502), t, more)

noop(s, t, more) == complete(reply(s, 200), t, more)

rest(s, t, m, more) ==
    IF m.arg = 0 THEN complete(reply(s, 501), t, more)
    ELSE complete(reply([s EXCEPT !.restByteCount = m.arg], 350), t, more)

rnfr(s, t, m, ok, more) ==
    IF ~s.fs THEN complete(reply(s, 550), t, more)
    ELSE IF m.arg = 0 THEN complete(reply(s, 501), t, more)
    ELSE IF ok THEN complete(reply([s EXCEPT !.renameFrom = m.arg], 350), t, more)
    ELSE complete(reply(s, 550), t, more)

rnto(s, t, m, ok, more) ==
    IF s.renameFrom = 0 THEN complete(reply(s, 503), t, more)
    ELSE IF ~s.fs THEN complete(reply(s, 550), t, more)
    ELSE IF m.arg = 0 THEN complete(reply(s, 503), t, more)
    ELSE complete([reply(s, IF ok THEN 250 ELSE 550) EXCEPT !.renameFrom = 0], t, more)

\* A reply of the ABOR handler on the control socket.
replyAbor(before, code) ==
    CHOOSE o \in {IF s.destroyed THEN s
                  ELSE IF s.failing THEN writeFails(s)
                  ELSE [s EXCEPT !.lastCtrl = code, !.wrote = Append(@, code),
                                 !.aborted.log = Append(@, [on |-> "control",
                                                            code |-> code])] :
                  s \in {before}} : TRUE

\* An ABOR that writes its 426 on the control socket.
abortOnControl(s, ok) == replyAbor(replyAbor(s, 426), 226)

\* ABOR with a data socket: 426 on the data socket, then 226 on the control
\* socket.  When the data socket does not take the write (~ok), reply's own
\* catch writes 451 on the control socket.
abortTransfer(s, ok) ==
    replyAbor(IF ok
              THEN [s EXCEPT !.aborted.log = Append(@, [on |-> "data", code |-> 426])]
              ELSE replyAbor(s, 451), 226)

\* ABOR whose waitForConnection rejected: 225.
noTransfer(s) == replyAbor(s, 225)

\* A finally that closes the session as well.
aborFinallyClose(s) ==
    close([end(s, s.connector) EXCEPT !.aborted.log = Append(@, [on |-> "end", code |-> 0])],
          421)

\* The finally of ABOR: this.connector.end().
aborFinally(s) ==
    [end(s, s.connector) EXCEPT !.aborted.log = Append(@, [on |-> "end", code |-> 0])]

\* An ABOR handler that also ends the connector where it has a data socket.
aborEndTwice(s, t, socket, ok, more) ==
    LET s0 == [s EXCEPT !.aborted = [NoAbort EXCEPT !.socket = socket,
                                                    !.writable = ok,
                                                    !.destroyed = s.destroyed,
                                                    !.closeLetter = s.closeLetter,
                                                    !.authenticated = s.authenticated]]
        s1 == IF socket THEN aborFinally(abortTransfer(s0, ok)) ELSE noTransfer(s0)
    IN complete([aborFinally(s1) EXCEPT !.aborted.done = TRUE], t, more)

\* The ABOR handler from the settling of waitForConnection: socket tells
\* whether it resolved, ok whether the data socket takes the 426.
abor(s, t, socket, ok, more) ==
    LET s0 == [s EXCEPT !.aborted = [NoAbort EXCEPT !.socket = socket,
                                                    !.writable = ok,
                                                    !.destroyed = s.destroyed,
                                                    !.closeLetter = s.closeLetter,
                                                    !.authenticated = s.authenticated]]
        s1 == IF socket THEN abortTransfer(s0, ok) ELSE noTransfer(s0)
    IN complete([aborFinally(s1) EXCEPT !.aborted.done = TRUE], t, more)

\* ABOR up to waitForConnection.
aborWait(s, t, ok, more) ==
    LET c == s.connector IN
    IF c = 0 \/ s.connectors[c].srv # "listening" THEN abor(s, t, FALSE, FALSE, more)
    ELSE IF checkSocket(s, c) THEN abor(s, t, TRUE, ok, more)
    ELSE [s EXCEPT !.tasks[t].pc = "wait", !.tasks[t].c = c]

\* A slot for a new connector object: one that no live object occupies.
FreeSlot(s, c) ==
    /\ s.connectors[c].srv = "none"
    /\ s.connectors[c].sock = "null"
    /\ s.connector # c
    /\ s.ended # c
    /\ \A t \in Tasks : s.tasks[t].c # c

HasFreeSlot(s) == \E c \in Slots : FreeSlot(s, c)

\* PASV: the connection's connector is replaced by a new PassiveConnector,
\* whose setupServer gets a port (ok), listens and arms the idle timer.
pasv(s, t, ok, more) ==
    LET c == CHOOSE x \in Slots : FreeSlot(s, x) /\ \A y \in Slots : FreeSlot(s, y) => x <= y
        s1 == [s EXCEPT !.connector = c, !.connectors[c] = NoConnector]
    IN IF ok
       THEN complete(reply([s1 EXCEPT !.connectors[c].srv = "listening",
                                      !.connectors[c].timer = TRUE], 227), t, more)
       ELSE complete(reply(s1, 400), t, more)

\* What reply writes in front of the message when it is handed a code that
\* is no number: nothing.
NoReplyCode == 0

\* The code of the error that ActiveConnector.setupConnection rejects with,
\* 0 when it resolves: SocketError(500) when the host is not the peer of
\* the command socket, else the error of the connect (~ok), whose code is
\* the name of a system error.
setupError(s, host, ok) ==
    IF s.destroyed \/ ~isEqual(s.remoteAddress, host) THEN 500
    ELSE IF ok THEN 0 ELSE NoReplyCode - 1

\* ActiveConnector.setupConnection of connector object c: the data socket
\* is made and connected only after the comparison of the addresses.
setupConnection(s, c, host, ok) ==
    IF s.destroyed \/ ~isEqual(s.remoteAddress, host) THEN s
    ELSE [s EXCEPT !.connectors[c].sock = IF ok THEN "open" ELSE "failed",
                   !.connectors[c].peer = host]

\* The slot of the connector object a handler makes.
NewSlot(s) ==
    CHOOSE x \in Slots : FreeSlot(s, x) /\ \A y \in Slots : FreeSlot(s, y) => x <= y

\* PORT: the connection's connector is replaced by a new ActiveConnector
\* before the argument is looked at; the catch replies err.code || 425.
port(s, t, m, ok, more) ==
    LET c == NewSlot(s)
        s1 == [s EXCEPT !.connector = c, !.connectors[c] = NoConnector]
    IN IF m.arg = 0 THEN complete(reply(s1, 425), t, more)
       ELSE LET host == ActiveHosts[m.arg]
                err == setupError(s1, host, ok)
            IN complete(reply(setupConnection(s1, c, host, ok),
                              IF err = 0 THEN 200
                              ELSE IF err > 0 THEN err ELSE NoReplyCode), t, more)

\* EPRT: 501 on an argument it cannot read; else a new ActiveConnector,
\* and the catch replies 425 whatever the error.
eprt(s, t, m, ok, more) ==
    IF m.arg = 0 THEN complete(reply(s, 501), t, more)
    ELSE LET c == NewSlot(s)
             s1 == [s EXCEPT !.connector = c, !.connectors[c] = NoConnector]
             host == ActiveHosts[m.arg]
         IN complete(reply(setupConnection(s1, c, host, ok),
                           IF setupError(s1, host, ok) = 0 THEN 200 ELSE 425), t, more)

\* RETR, STOR, APPE up to waitForConnection.
transfer(s, t, m, more) ==
    IF ~s.fs THEN complete(reply(s, 550), t, more)
    ELSE IF m.arg = 0 THEN complete(reply(s, 501), t, more)
    ELSE waitForConnection(s, t, more)

\* LIST up to waitForConnection.
list(s, t, more) ==
    IF ~s.fs THEN complete(reply(s, 550), t, more)
    ELSE waitForConnection(s, t, more)

handler(s, t, m, ok, more) ==
    CASE m.dir = "USER" -> user(s, t, m, more)
      [] m.dir = "PASS" -> pass(s, t, m, ok, more)
      [] m.dir = "QUIT" -> quit(s, t, more)
      [] m.dir = "NOOP" -> noop(s, t, more)
      [] m.dir = "REST" -> rest(s, t, m, more)
      [] m.dir = "RNFR" -> rnfr(s, t, m, ok, more)
      [] m.dir = "RNTO" -> rnto(s, t, m, ok, more)
      [] m.dir = "PASV" -> pasv(s, t, ok, more)
      [] m.dir \in TransferDirectives -> transfer(s, t, m, more)
      [] m.dir \in ListDirectives -> list(s, t, more)
      [] m.dir = "ABOR" -> aborWait(s, t, ok, more)
      [] m.dir = "SYST" -> syst(s, t, more)
      [] m.dir = "OPTS" -> opts(s, t, m, more)
      [] m.dir = "SITE" -> site(s, t, m, more)
      [] m.dir = "PORT" -> port(s, t, m, ok, more)
      [] m.dir = "EPRT" -> eprt(s, t, m, ok, more)
      [] m.dir = "ALLO" -> allo(s, t, more)
      [] m.dir = "TYPE" -> type(s, t, m, more)

\* this.blacklist.includes(command.directive)
blacklisted(s, dir) == dir \in s.blacklist

\* A whitelist that refuses nothing.
whitelistOpen(s, dir) == FALSE

\* this.whitelist.length > 0 && !this.whitelist.includes(command.directive)
notWhitelisted(s, dir) == s.whitelist # {} /\ dir \notin s.whitelist

\* A gate that lets every directive through.
gateOpen(s, dir) == FALSE

\* The authentication gate of Commands.handle:
\* !commandFlags.no_auth && !this.connection.authenticated.
gate(s, dir) == dir \notin (no_auth \cup no_auth_user_prot) /\ ~s.authenticated

\* Commands.handle: registry, blacklist, whitelist, the authentication
\* gate, then the handler.
handle(s0, t, m, ok, more) ==
    LET running == {u \in Tasks \ {t} : Running(s0, u)}
        s == [Clear(s0) EXCEPT !.tasks[t] = [NoTask EXCEPT !.pc = "run", !.dir = m.dir,
                                                         !.n = s0.tasks[t].n + 1,
                                                         !.after = running]]
        see(outcome) == [dir |-> m.dir, arg |-> m.arg, ok |-> ok,
                         authenticated |-> s0.authenticated,
                         destroyed |-> s0.destroyed,
                         closeLetter |-> s0.closeLetter,
                         connector |-> s0.connector,
                         running |-> running, outcome |-> outcome]
        r == IF m.dir \notin REGISTRY
             THEN next(reply([s EXCEPT !.dispatched = see("502")], 502), t, more)
             ELSE IF blacklisted(s, m.dir)
             THEN next(reply([s EXCEPT !.dispatched = see("502")], 502), t, more)
             ELSE IF notWhitelisted(s, m.dir)
             THEN next(reply([s EXCEPT !.dispatched = see("502")], 502), t, more)
             ELSE IF gate(s, m.dir)
             THEN next(reply([s EXCEPT !.dispatched = see("530")], 530), t, more)
             ELSE handler([s EXCEPT !.dispatched = see("handler")], t, m, ok, more)
    IN order(r, s, t)

(***************************************************************************)
(* Control lines spelled out in characters, and their parsing.             *)
(***************************************************************************)
\* The longest line _handleData and parse accept.
MaxMessageLength == 512

LineNoop == <<"n", "o", "o", "p">>
LineFrobx == <<"F", "R", "O", "B", "X", " ", "a">>
LineDigit == <<"A", "1">>
LineQuotes == <<"\"", "\"">>
LineSpaces == <<" ", " ">>
LineLong == <<"N", "O", "O", "P", " ">> \o [i \in 1..(MaxMessageLength - 4) |-> "a"]

\* The lines the model's client sends character by character.
Lines == {LineNoop, LineFrobx, LineDigit, LineQuotes, LineSpaces, LineLong}

\* The spelling of the directives that these lines can name.
Spelling == [NOOP |-> <<"N", "O", "O", "P">>, FROB |-> <<"F", "R", "O", "B">>]

\* String.prototype.toUpperCase over the letters of these lines.
toUpperCase(s) ==
    [i \in 1..Len(s) |->
        CASE s[i] = "n" -> "N" [] s[i] = "o" -> "O" [] s[i] = "p" -> "P"
          [] s[i] = "a" -> "A" [] OTHER -> s[i]]

UpperLetters == {"A", "B", "C", "D", "E", "F", "G", "H", "I", "J", "K", "L", "M",
                 "N", "O", "P", "Q", "R", "S", "T", "U", "V", "W", "X", "Y", "Z"}

\* split(' ')[0]
FirstWord(s) ==
    IF \E i \in 1..Len(s) : s[i] = " "
    THEN SubSeq(s, 1, (CHOOSE i \in 1..Len(s) :
                          s[i] = " " /\ \A j \in 1..(i - 1) : s[j] # " ") - 1)
    ELSE s

\* Commands.parse: err where it throws its GeneralError; otherwise the
\* directive and whether an argument follows it.
parse(message) ==
    LET sanitizedMessage == Trim(SelectSeq(message, LAMBDA c : c # "\""))
        directive == toUpperCase(FirstWord(sanitizedMessage))
        failed == [err |-> TRUE, dir |-> "", arg |-> 0]
    IN IF message = <<>> \/ Len(message) > MaxMessageLength THEN failed
       ELSE IF sanitizedMessage = <<>> THEN failed
       ELSE IF directive = <<>> \/ Len(directive) > 4 THEN failed
       ELSE IF \E i \in 1..Len(directive) : directive[i] \notin UpperLetters THEN failed
       ELSE [err |-> FALSE,
             dir |-> IF \E d \in DOMAIN Spelling : Spelling[d] = directive
                     THEN CHOOSE d \in DOMAIN Spelling : Spelling[d] = directive
                     ELSE "?",
             arg |-> IF Len(sanitizedMessage) > Len(directive) THEN 1 ELSE 0]

\* _handleData and commands.handle for a line given in characters: the
\* filter of _handleData drops the line without a word to the client when
\* it is empty once trimmed or longer than 512; parse throws inside
\* commands.handle, whose promise rejects.
handleLine(s0, t, line, more) ==
    LET msg == Trim(line)
        s == [Clear(s0) EXCEPT !.tasks[t] = [NoTask EXCEPT !.pc = "run",
                                                          !.n = s0.tasks[t].n + 1]]
    IN IF Len(msg) = 0 \/ Len(msg) > MaxMessageLength
       THEN next([s EXCEPT !.dispatched.outcome = "dropped"], t, more)
       ELSE IF parse(msg).err
       THEN [reject(s, t) EXCEPT !.dispatched.outcome = "unparsed"]
       ELSE handle(s0, t, [dir |-> parse(msg).dir, arg |-> parse(msg).arg], TRUE, more)

(***************************************************************************)
(* The steps of a transfer or listing handler after waitForConnection.     *)
(***************************************************************************)
\* await reply(150)
reply150(before, t) ==
    CHOOSE o \in {IF s.destroyed THEN s
                  ELSE IF s.failing THEN writeFails(s)
                  ELSE [s EXCEPT !.lastCtrl = 150, !.wrote = Append(@, 150),
                                 !.io = Append(@, "150"),
                                 !.tasks[t].w150 = TRUE] :
                  s \in {before}} : TRUE

\* The handler wires the stream and the data socket, or writes the listing
\* on the data socket: from here on bytes move on the data socket.
data(s) == [s EXCEPT !.io = Append(@, "data")]

\* Whether the data socket of connector object c can still be written to;
\* fin tells that the socket has emitted 'end', after which a socket
\* without allowHalfOpen ends its writable side by itself.
dataWritable(s, c, fin) == c # 0 /\ s.connectors[c].sock = "open" /\ ~fin

\* reply(226) of the handler of task t.
reply226(s, t) ==
    CHOOSE o \in {[r EXCEPT !.io = IF r.destroyed THEN @ ELSE Append(@, "226")] :
                     r \in {replyOf(s, t, 226)}} : TRUE

\* From the paused command socket to the 150 reply: the file system opens
\* the stream (ok) or fails, the handler wires the stream to
\* connector.socket and resets restByteCount.  `start' is the option the
\* handler hands to fs.read or fs.write (0 when it hands none).
open(s, t, ok, more) ==
    LET dir == s.tasks[t].dir
        cur == s.connector
        socket == cur # 0 /\ s.connectors[cur].sock = "open"
        see(start) == [dir |-> dir, start |-> start,
                       restByteCount |-> s.restByteCount,
                       previousCommand |-> s.previousCommand]
    IN CASE dir = "RETR" ->
              IF ~ok THEN catch(s, t, "Error", more)
              ELSE [data(reply150(s, t)) EXCEPT !.opened = see(s.restByteCount),
                                                !.restByteCount = 0,
                                                !.tasks[t].pc = "xfer",
                                                !.tasks[t].c = cur]
         [] dir = "STOR" ->
              IF ~ok THEN catch(s, t, "Error", more)
              ELSE [data(reply150(s, t)) EXCEPT !.opened = see(0),
                                                !.restByteCount = 0,
                                                !.tasks[t].pc = "xfer",
                                                !.tasks[t].c = cur,
                                                !.tasks[t].piped = socket]
         [] dir = "APPE" ->
              LET s1 == [s EXCEPT !.opened = see(s.restByteCount), !.restByteCount = 0] IN
              IF ~ok THEN catch(reply150(s1, t), t, "TransferError", more)
              ELSE [data(reply150(s1, t)) EXCEPT !.tasks[t].pc = "xfer",
                                                 !.tasks[t].c = cur,
                                                 !.tasks[t].piped = socket]
         [] dir \in ListDirectives ->
              IF ~ok THEN catch(s, t, "Error", more)
              ELSE [endAndResume(reply226(data(reply150(s, t)), t), t, more)
                      EXCEPT !.completed.dataWritable = dataWritable(s, cur, FALSE)]

\* The transfer's promises settle: the stream ended or finished (done), or
\* the stream or the data socket reported an error.
settle(s, t, done, more) ==
    IF done
    THEN [endAndResume(reply226(s, t), t, more)
            EXCEPT !.completed.dataWritable =
                      dataWritable(s, s.tasks[t].c,
                                   s.tasks[t].dir \in {"STOR", "APPE"})]
    ELSE catch(s, t, "Error", more)

\* A connectionHandler that leaves the idle timer armed.
connectionHandlerArmed(s, c, dataAddr) ==
    LET commandAddr == IF s.destroyed THEN <<>> ELSE s.remoteAddress IN
    IF commandAddr = <<>> \/ dataAddr = <<>>
       \/ ~validateClientAddress(commandAddr, dataAddr)
    THEN close(reply(s, 550), 421)
    ELSE [s EXCEPT !.connectors[c].sock = "open",
                   !.connectors[c].peer = dataAddr,
                   !.connectors[c].adopted = @ + 1]

\* connectionHandler of the passive listener of connector object c.
connectionHandler(s, c, dataAddr) ==
    LET commandAddr == IF s.destroyed THEN <<>> ELSE s.remoteAddress IN
    IF commandAddr = <<>> \/ dataAddr = <<>>
       \/ ~validateClientAddress(commandAddr, dataAddr)
    THEN close(reply(s, 550), 421)
    ELSE [s EXCEPT !.connectors[c].sock = "open",
                   !.connectors[c].peer = dataAddr,
                   !.connectors[c].timer = FALSE,
                   !.connectors[c].adopted = @ + 1]

(***************************************************************************)
(* Actions of the session.                                                 *)
(***************************************************************************)
\* mapSeries hands the next message of a data event to commands.handle in
\* the microtasks that follow the completion of the one before: no event
\* of the runtime comes in between.
Idle == \A t \in Tasks : connection.tasks[t].pc # "ready"

SessInit ==
    /\ connection = NoConnection
    /\ budget = MaxCmds

\* FtpServer's serverConnectionHandler: a client connects, the server
\* creates its Connection, greets it and resumes the socket.
serverConnectionHandler(cfg) ==
    /\ ~connection.accepted
    /\ connection' = reply([Connection(cfg) EXCEPT !.registered = TRUE], 220)
    /\ UNCHANGED <<budget, fsVars, portVars, limVars, storeVars, srvVars, renVars>>

Oracle == BOOLEAN

\* The answers of the collaborator that the handler of message m calls
\* before its first reply, if it calls one.
Answers(m) ==
    IF m.dir \in {"PASS", "RNFR", "RNTO", "PASV", "ABOR", "PORT", "EPRT"}
    THEN Oracle ELSE {TRUE}

\* 'data' on the command socket: _handleData hands the first message of the
\* event to commands.handle.  Every event is served by its own invocation.
DataEvent(m, ok, more) ==
    /\ connection.accepted
    /\ Idle
    /\ more => budget > 1
    /\ budget > 0
    /\ ~connection.destroyed /\ ~connection.paused
    /\ \E t \in Tasks :
          /\ connection.tasks[t].pc = "free"
          /\ \A u \in Tasks : connection.tasks[u].pc = "free" => t <= u
          /\ m.dir \in ConnectorDirectives => HasFreeSlot(connection)
          /\ connection' = handle(connection, t, m, ok, more)
    /\ budget' = budget - 1
    /\ UNCHANGED <<fsVars, portVars, limVars, storeVars, srvVars, renVars>>

\* 'data' on the command socket whose first line is one of Lines.
DataLine(line, more) ==
    /\ connection.accepted
    /\ Idle
    /\ more => budget > 1
    /\ budget > 0
    /\ ~connection.destroyed /\ ~connection.paused
    /\ \E t \in Tasks :
          /\ connection.tasks[t].pc = "free"
          /\ \A u \in Tasks : connection.tasks[u].pc = "free" => t <= u
          /\ connection' = handleLine(connection, t, line, more)
    /\ budget' = budget - 1
    /\ UNCHANGED <<fsVars, portVars, limVars, storeVars, srvVars, renVars>>

\* 'data' with more than 8192 bytes.
DataTooLong ==
    /\ connection.accepted
    /\ Idle
    /\ budget > 0
    /\ ~connection.destroyed /\ ~connection.paused
    /\ connection' = close(Clear(connection), 500)
    /\ budget' = budget - 1
    /\ UNCHANGED <<fsVars, portVars, limVars, storeVars, srvVars, renVars>>

\* mapSeries: the next message of the same data event.
NextMessage(t, m, ok, more) ==
    /\ more => budget > 1
    /\ budget > 0
    /\ connection.tasks[t].pc = "ready"
    /\ m.dir \in ConnectorDirectives => HasFreeSlot(connection)
    /\ connection' = handle(connection, t, m, ok, more)
    /\ budget' = budget - 1
    /\ UNCHANGED <<fsVars, portVars, limVars, storeVars, srvVars, renVars>>

\* waitForConnection's checkSocket finds the data socket.
Poll(t) ==
    /\ Idle
    /\ connection.tasks[t].pc = "wait"
    /\ connection.tasks[t].dir # "ABOR"
    /\ checkSocket(connection, connection.tasks[t].c)
    /\ connection' = obtained(Clear(connection), t, connection.tasks[t].c)
    /\ UNCHANGED <<budget, fsVars, portVars, limVars, storeVars, srvVars, renVars>>

\* waitForConnection's timeout rejects with a plain Error.
Timeout(t, more) ==
    /\ Idle
    /\ more => budget > 0
    /\ connection.tasks[t].pc = "wait"
    /\ connection' = order(IF connection.tasks[t].dir = "ABOR"
                            THEN abor(Clear(connection), t, FALSE, FALSE, more)
                            ELSE catch(Clear(connection), t, ConnectionTimeout, more),
                            connection, t)
    /\ UNCHANGED <<budget, fsVars, portVars, limVars, storeVars, srvVars, renVars>>

\* waitForConnection's checkSocket finds the data socket for a waiting ABOR,
\* which goes on to its replies.
PollAbor(t, ok, more) ==
    /\ Idle
    /\ more => budget > 0
    /\ connection.tasks[t].pc = "wait"
    /\ connection.tasks[t].dir = "ABOR"
    /\ checkSocket(connection, connection.tasks[t].c)
    /\ connection' = order(abor(Clear(connection), t, TRUE, ok, more), connection, t)
    /\ UNCHANGED <<budget, fsVars, portVars, limVars, storeVars, srvVars, renVars>>

Open(t, ok, more) ==
    /\ Idle
    /\ more => budget > 0
    /\ connection.tasks[t].pc = "paused"
    /\ connection' = order(open(Clear(connection), t, ok, more), connection, t)
    /\ UNCHANGED <<budget, fsVars, portVars, limVars, storeVars, srvVars, renVars>>

\* An upload is done when the data socket it was piped from ends and the
\* stream finishes; a download when the stream ends.
Settle(t, done, more) ==
    LET k == connection.tasks[t] IN
    /\ Idle
    /\ more => budget > 0
    /\ k.pc = "xfer"
    /\ (done /\ k.dir \in {"STOR", "APPE"}) =>
          (k.piped /\ connection.connectors[k.c].sock = "open")
    /\ connection' = order(settle(Clear(connection), t, done, more), connection, t)
    /\ UNCHANGED <<budget, fsVars, portVars, limVars, storeVars, srvVars, renVars>>

\* The client connects to the passive listener of connector object c.
ClientConnect(c, dataAddr) ==
    /\ Idle
    /\ connection.connectors[c].srv = "listening"
    /\ connection.connectors[c].sock = "null"
    /\ connection' = connectionHandler(Clear(connection), c, dataAddr)
    /\ UNCHANGED <<budget, fsVars, portVars, limVars, storeVars, srvVars, renVars>>

\* idleServerTimeout: closeServer.
IdleTimeout(c) ==
    /\ Idle
    /\ connection.connectors[c].timer
    /\ connection' = [Clear(connection) EXCEPT !.connectors[c].srv = "closing",
                                                !.connectors[c].timer = FALSE]
    /\ UNCHANGED <<budget, fsVars, portVars, limVars, storeVars, srvVars, renVars>>

\* 'close' of the passive listener: this.end().
ServerClose(c) ==
    /\ Idle
    /\ connection.connectors[c].srv = "closing"
    /\ connection' = [end(Clear(connection), c) EXCEPT !.connectors[c].srv = "none"]
    /\ UNCHANGED <<budget, fsVars, portVars, limVars, storeVars, srvVars, renVars>>

\* A disconnectClient that leaves _connections as it is.
disconnectClientKeeps(s) == s

\* FtpServer.disconnectClient on 'close' of the command socket: the
\* Connection is taken out of _connections; its close() finds the socket
\* destroyed, so that its reply writes nothing.
disconnectClient(s) == [s EXCEPT !.registered = FALSE]

\* 'close' of the command socket: the listener of the Connection runs
\* connector.end(), then the listener of the server runs disconnectClient.
\* ended is the connector object that was the connection's.
SocketClose ==
    /\ Idle
    /\ connection.destroyed /\ ~connection.closed
    /\ connection' = [disconnectClient(end(Clear(connection), connection.connector))
                         EXCEPT !.closed = TRUE, !.ended = connection.connector]
    /\ UNCHANGED <<budget, fsVars, portVars, limVars, storeVars, srvVars, renVars>>

\* The runtime reports the rejection nothing handled.  By default the
\* process then exits (exit), and every socket of the server goes with it;
\* started with --unhandled-rejections=warn or none it goes on.
UnhandledRejection(exit) ==
    /\ Idle
    /\ connection.unhandled
    /\ connection' =
          IF exit
          THEN [Clear(connection) EXCEPT !.unhandled = FALSE, !.exited = TRUE,
                                         !.destroyed = TRUE, !.closed = TRUE,
                                         !.closeLetter = 0, !.paused = FALSE,
                                         !.connector = 0,
                                         !.connectors = [c \in Slots |-> NoConnector],
                                         !.tasks = [t \in Tasks |-> NoTask]]
          ELSE [Clear(connection) EXCEPT !.unhandled = FALSE]
    /\ UNCHANGED <<budget, fsVars, portVars, limVars, storeVars, srvVars, renVars>>

\* The connection to the client breaks: the next write on the command
\* socket calls back with an error.
LinkBreaks ==
    /\ Idle
    /\ connection.accepted
    /\ ~connection.destroyed /\ ~connection.failing
    /\ connection' = [Clear(connection) EXCEPT !.failing = TRUE]
    /\ UNCHANGED <<budget, fsVars, portVars, limVars, storeVars, srvVars, renVars>>

\* processLetter of the reply that close() started.
ProcessLetter ==
    /\ Idle
    /\ connection.closeLetter # 0
    /\ connection' = [reply(Clear(connection), connection.closeLetter)
                         EXCEPT !.closeLetter = 0]
    /\ UNCHANGED <<budget, fsVars, portVars, limVars, storeVars, srvVars, renVars>>

(***************************************************************************)
(* The rate limiters: the server's, keyed by the address of the client,    *)
(* and the one each Connection makes for its own commands.                 *)
(***************************************************************************)
\* new RateLimiter(30, 60000) of the server, new RateLimiter(300, 60000) of
\* a Connection.
ConnectionLimit == 30
CommandLimit == 300
windowMs == 60000

\* The messages _handleData takes from one data event: slice(0, 10).
MaxMessages == 10

\* The steps of the clock, the last time it shows, and the connections the
\* flooding client and the other client attempt.
TickMs == 30000
MaxTime == 60000
MaxFlood == 32
MaxOther == 2
MaxEvents == 303

\* The clients of the server, by the remoteAddress of their sockets.
Flooder == MappedPrefix \o Addr10_1
Other == Addr127
ClientAddrs == {Flooder, Other}

\* normalize: toString(toUInt8Array(addr)); toString renders one string per
\* byte array, and the byte array stands for it.
normalize(addr) == toUInt8Array(addr)

ClientIds == {normalize(a) : a \in ClientAddrs}

\* this.requests.get(clientId) || [] filtered to the window.
validRequests(requests, clientId, now) ==
    SelectSeq(requests[clientId], LAMBDA time : now - time < windowMs)

\* A limiter that lets one request more through.
isAllowedOneMore(requests, clientId, now, maxRequests) ==
    LET valid == validRequests(requests, clientId, now) IN
    IF Len(valid) > maxRequests
    THEN [allowed |-> FALSE, requests |-> [requests EXCEPT ![clientId] = valid]]
    ELSE [allowed |-> TRUE,
          requests |-> [requests EXCEPT ![clientId] = Append(valid, now)]]

\* RateLimiter.isAllowed at time now: the answer and the Map it leaves.
isAllowed(requests, clientId, now, maxRequests) ==
    LET valid == validRequests(requests, clientId, now) IN
    IF Len(valid) >= maxRequests
    THEN [allowed |-> FALSE, requests |-> [requests EXCEPT ![clientId] = valid]]
    ELSE [allowed |-> TRUE,
          requests |-> [requests EXCEPT ![clientId] = Append(valid, now)]]

NoAttempt == [clientIp |-> <<>>, allowed |-> FALSE, wrote |-> 0, destroyed |-> FALSE,
              connections |-> 0]

\* The server: its clock, the Map of its connectionRateLimiter, the size of
\* _connections, the times at which it made a Connection for each client,
\* the connections each client attempted, and what the last call of
\* serverConnectionHandler did.
AcceptInit ==
    acceptor = [now |-> 0,
                requests |-> [k \in ClientIds |-> <<>>],
                connections |-> 0,
                made |-> [k \in ClientIds |-> <<>>],
                attempts |-> [a \in ClientAddrs |-> 0],
                last |-> NoAttempt]

\* serverConnectionHandler for a socket from addr: the limiter is asked
\* before anything else; a refused socket is written 421 and destroyed, an
\* allowed one gets its Connection, which is put into _connections.
connectionAttempt(addr) ==
    LET clientIp == normalize(addr)
        r == isAllowed(acceptor.requests, clientIp, acceptor.now, ConnectionLimit)
    IN /\ acceptor.attempts[addr] < (IF addr = Flooder THEN MaxFlood ELSE MaxOther)
       /\ acceptor' =
             IF r.allowed
             THEN [acceptor EXCEPT !.requests = r.requests,
                                   !.attempts[addr] = @ + 1,
                                   !.connections = @ + 1,
                                   !.made[clientIp] = Append(@, acceptor.now),
                                   !.last = [clientIp |-> clientIp, allowed |-> TRUE,
                                             wrote |-> 220, destroyed |-> FALSE,
                                             connections |-> acceptor.connections]]
             ELSE [acceptor EXCEPT !.requests = r.requests,
                                   !.attempts[addr] = @ + 1,
                                   !.last = [clientIp |-> clientIp, allowed |-> FALSE,
                                             wrote |-> 421, destroyed |-> TRUE,
                                             connections |-> acceptor.connections]]
       /\ UNCHANGED <<fsVars, portVars, sessVars, feed, storeVars, srvVars, renVars>>

\* Date.now() moves on.
AcceptTick ==
    /\ acceptor.now < MaxTime
    /\ acceptor' = [acceptor EXCEPT !.now = @ + TickMs, !.last = NoAttempt]
    /\ UNCHANGED <<fsVars, portVars, sessVars, feed, storeVars, srvVars, renVars>>

\* One session and the data events on its command socket: its clock, the
\* Map of its rateLimiter, the messages each data event holds (perEvent, 0
\* before the first), the data events so far, the messages handed to
\* commands.handle at each time, and the command socket.
FeedTimes == {0, windowMs}

FeedInit ==
    feed = [now |-> 0,
            requests |-> [k \in ClientIds |-> <<>>],
            perEvent |-> 0,
            events |-> 0,
            handled |-> [time \in FeedTimes |-> 0],
            refused |-> FALSE,
            destroyed |-> FALSE,
            closeLetter |-> 0,
            lastCtrl |-> 0,
            wrote |-> <<>>]

\* _handleData for a data event of n messages: one call of isAllowed for
\* the event, then close(421) or mapSeries over the messages.
handleData(s, n) ==
    LET clientId == normalize(Flooder)
        r == isAllowed(s.requests, clientId, s.now, CommandLimit)
    IN IF r.allowed
       THEN [s EXCEPT !.requests = r.requests, !.events = @ + 1,
                      !.handled[s.now] = @ + n, !.wrote = <<>>]
       ELSE close([s EXCEPT !.requests = r.requests, !.events = @ + 1,
                            !.refused = TRUE, !.wrote = <<>>], 421)

\* 'data' on the command socket; a client sends one message in each data
\* event, or as many as _handleData takes.
FeedData(n) ==
    /\ ~feed.destroyed
    /\ feed.events < MaxEvents
    /\ feed.perEvent \in {0, n}
    /\ feed' = [handleData(feed, n) EXCEPT !.perEvent = n]
    /\ UNCHANGED <<fsVars, portVars, sessVars, acceptor, storeVars, srvVars, renVars>>

\* Date.now() moves on by a window.
FeedTick ==
    /\ feed.now < MaxTime
    /\ feed' = [feed EXCEPT !.now = @ + windowMs, !.wrote = <<>>]
    /\ UNCHANGED <<fsVars, portVars, sessVars, acceptor, storeVars, srvVars, renVars>>

\* processLetter of the reply that close() started.
FeedProcessLetter ==
    /\ feed.closeLetter # 0
    /\ feed' = [reply([feed EXCEPT !.wrote = <<>>], feed.closeLetter)
                   EXCEPT !.closeLetter = 0]
    /\ UNCHANGED <<fsVars, portVars, sessVars, acceptor, storeVars, srvVars, renVars>>

(***************************************************************************)
(* SupabaseFileSystem on the object store.  The bucket is a set of object  *)
(* keys; a key is the string the code hands to storage.upload.  The store  *)
(* is taken to hold no key that is a directory of another key: an upload   *)
(* that would make one is answered with an error.                          *)
(***************************************************************************)
\* '.emptyFolderPlaceholder': its first character, which the code looks at,
\* and the rest of the name in one piece.
EMPTY_FOLDER_PLACEHOLDER == <<".", "emptyFolderPlaceholder">>

DEFAULT_LIST_LIMIT == 1000

\* The paths the model's client names.
StorePaths == {<<"/">>, <<"a">>, <<".", "a">>, <<"a", "/", "a">>,
               <<"a", "/", ".", ".">>}

\* `${fsPath}/${name}`
Child(fsPath, name) == fsPath \o <<"/">> \o name

\* key lies below the directory prefix; the empty prefix is the bucket.
Below(key, prefix) ==
    IF prefix = <<>> THEN TRUE
    ELSE StartsWith(key, prefix \o <<"/">>) /\ Len(key) > Len(prefix) + 1

\* The segments of key below prefix.
Rest(key, prefix) ==
    Segments(IF prefix = <<>> THEN key ELSE SubSeq(key, Len(prefix) + 2, Len(key)))

\* storage.list(prefix, {limit, search}): one item for each name directly
\* below prefix, with metadata when the name is an object and without when
\* it is a folder of deeper objects; search keeps the names that begin with
\* it.  The model's buckets hold fewer than `limit' names below a prefix.
storageList(objects, prefix, search) ==
    {[name |-> Rest(key, prefix)[1], metadata |-> Len(Rest(key, prefix)) = 1] :
        key \in {k \in objects : /\ Below(k, prefix)
                                 /\ StartsWith(Rest(k, prefix)[1], search)}}

\* storage.remove(keys)
storageRemove(objects, keys) == objects \ keys

\* Would the upload of key put a key in the bucket that is a directory of
\* another, or the other way round?
Clashes(objects, key) ==
    \E k \in objects : Below(k, key) \/ Below(key, k)

isEmptyFolderPlaceholder(item) == item.name = EMPTY_FOLDER_PLACEHOLDER

\* A createEmptyFolderPlaceholder that uploads nothing.
createNoPlaceholder(objects, fsPath) == objects

\* createEmptyFolderPlaceholder: upload with upsert.
createEmptyFolderPlaceholder(objects, fsPath) ==
    objects \cup {Child(fsPath, EMPTY_FOLDER_PLACEHOLDER)}

\* findPlaceholderFile
findPlaceholderFile(objects, fsPath) ==
    \E item \in storageList(objects, fsPath, EMPTY_FOLDER_PLACEHOLDER) :
        isEmptyFolderPlaceholder(item)

\* split('/').slice(0, -1).join('/') and split('/').pop() of a resolved path
ParentOf(path) ==
    LET segs == Segments(path) IN
    IF segs = <<>> THEN <<>> ELSE JoinSlash(SubSeq(segs, 1, Len(segs) - 1))

LastOf(path) ==
    LET segs == Segments(path) IN
    IF segs = <<>> THEN <<>> ELSE segs[Len(segs)]

\* get: found tells whether it returns stats, isDirectory what they say.
get(objects, cwd, fileName) ==
    LET fsPath == _resolvePath(cwd, fileName).fsPath
        fileData == storageList(objects, ParentOf(fsPath), LastOf(fsPath))
        files == {item \in fileData : item.name = LastOf(fsPath)}
    IN IF fileName \in {<<".">>, <<>>, <<"/">>}
       THEN [found |-> TRUE, isDirectory |-> TRUE]
       ELSE IF files # {}
       THEN [found |-> TRUE, isDirectory |-> \E item \in files : ~item.metadata]
       ELSE IF findPlaceholderFile(objects, fsPath)
       THEN [found |-> TRUE, isDirectory |-> TRUE]
       ELSE [found |-> FALSE, isDirectory |-> FALSE]

\* SupabaseFileSystem.list: the names of the stats it returns.
fsList(objects, cwd, path, showHidden) ==
    LET fsPath == _resolvePath(cwd, path).fsPath
        items == storageList(objects, fsPath, <<>>)
    IN {item.name : item \in {i \in items : showHidden \/ ~StartsWith(i.name, <<".">>)}}

\* A deleteDirectory that removes the files of the directory and leaves
\* its sub-directories alone.
deleteDirectoryFlat(objects, cwd, fsPath, path) ==
    LET items == storageList(objects, fsPath, <<>>)
        filesToDelete == {Child(fsPath, file.name) : file \in {i \in items : i.metadata}}
    IN [err |-> FALSE, objects |-> storageRemove(objects, filesToDelete)]

\* delete and deleteDirectory: the bucket they leave, err when they throw.
\* The deletes of the sub-directories work on separate parts of the bucket;
\* they are taken one after the other.
RECURSIVE delete(_, _, _)
RECURSIVE deleteDirectory(_, _, _, _)
RECURSIVE deleteAll(_, _, _, _)
deleteAll(objects, cwd, path, names) ==
    IF names = {} THEN [err |-> FALSE, objects |-> objects]
    ELSE LET name == CHOOSE n \in names : TRUE
             r == delete(objects, cwd, Child(path, name))
             others == deleteAll(r.objects, cwd, path, names \ {name})
         IN [err |-> r.err \/ others.err, objects |-> others.objects]

deleteDirectory(objects, cwd, fsPath, path) ==
    LET items == storageList(objects, fsPath, <<>>)
        filesToDelete == {Child(fsPath, file.name) : file \in {i \in items : i.metadata}}
        removed == storageRemove(objects, filesToDelete)
    IN deleteAll(removed, cwd, path, {i.name : i \in {j \in items : ~j.metadata}})

delete(objects, cwd, path) ==
    LET fsPath == _resolvePath(cwd, path).fsPath
        stats == get(objects, cwd, path)
    IN IF ~stats.found THEN [err |-> TRUE, objects |-> objects]
       ELSE IF ~stats.isDirectory
       THEN [err |-> FALSE, objects |-> storageRemove(objects, {fsPath})]
       ELSE deleteDirectory(objects, cwd, fsPath, path)

\* What the last operation on the file system was and returned.
NoOp == [op |-> "", clientPath |-> <<>>, showHidden |-> FALSE, ok |-> FALSE,
         names |-> {}]

\* How far the bucket is along mkdir(A), mkdir(A/B), delete(A).
NoTrail == [n |-> 0, A |-> <<>>]

StoreInit ==
    store = [objects |-> {}, last |-> NoOp, made |-> <<>>, trail |-> NoTrail]

\* The path of the mkdir that succeeded just before the operation at hand.
Made == IF store.last.op = "mkdir" /\ store.last.ok THEN store.last.clientPath ELSE <<>>

After(op, clientPath, showHidden, ok, names) ==
    [op |-> op, clientPath |-> clientPath, showHidden |-> showHidden, ok |-> ok,
     names |-> names]

\* mkdir(path); ok is the answer of storage.upload.
Mkdir(path, ok) ==
    LET r == _resolvePath(fsCwd, path)
        key == Child(r.fsPath, EMPTY_FOLDER_PLACEHOLDER)
        done == ok /\ ~Clashes(store.objects, key)
        top == Len(Segments(r.clientPath)) = 1
    IN /\ done => Cardinality(store.objects \cup {key}) <= MaxObjects
       /\ store' = [objects |-> IF done
                                THEN createEmptyFolderPlaceholder(store.objects, r.fsPath)
                                ELSE store.objects,
                    last |-> After("mkdir", r.clientPath, FALSE, done, {}),
                    made |-> Made,
                    trail |-> IF ~done THEN NoTrail
                              ELSE IF /\ store.trail.n = 1
                                      /\ Len(Segments(r.clientPath)) = 2
                                      /\ <<"/">> \o ParentOf(r.clientPath) = store.trail.A
                              THEN [store.trail EXCEPT !.n = 2]
                              ELSE IF top THEN [n |-> 1, A |-> r.clientPath]
                              ELSE NoTrail]
       /\ UNCHANGED <<fsVars, portVars, sessVars, limVars, srvVars, renVars>>

\* write(fileName) and the upload it starts running to its end: the object
\* fsPath is in the bucket.
Write(fileName, ok) ==
    LET r == _resolvePath(fsCwd, fileName)
        done == ok /\ r.fsPath # bucketPrefix /\ ~Clashes(store.objects, r.fsPath)
    IN /\ done => Cardinality(store.objects \cup {r.fsPath}) <= MaxObjects
       /\ store' = [objects |-> IF done THEN store.objects \cup {r.fsPath}
                                ELSE store.objects,
                    last |-> After("write", r.clientPath, FALSE, done, {}),
                    made |-> Made,
                    trail |-> NoTrail]
       /\ UNCHANGED <<fsVars, portVars, sessVars, limVars, srvVars, renVars>>

\* list(path, {showHidden}); ok is the answer of storage.list.
List(path, showHidden, ok) ==
    LET r == _resolvePath(fsCwd, path) IN
    /\ store' = [store EXCEPT
                    !.last = After("list", r.clientPath, showHidden, ok,
                                   IF ok THEN fsList(store.objects, fsCwd, path, showHidden)
                                   ELSE {}),
                    !.made = Made]
    /\ UNCHANGED <<fsVars, portVars, sessVars, limVars, srvVars, renVars>>

\* delete(path); ok is the answer of the object store to the first call.
Delete(path, ok) ==
    LET r == _resolvePath(fsCwd, path)
        d == delete(store.objects, fsCwd, path)
        done == ok /\ ~d.err
    IN /\ store' = [objects |-> IF done THEN d.objects ELSE store.objects,
                    last |-> After("delete", r.clientPath, FALSE, done, {}),
                    made |-> Made,
                    trail |-> IF done /\ store.trail.n = 2 /\ r.clientPath = store.trail.A
                              THEN [store.trail EXCEPT !.n = 3]
                              ELSE NoTrail]
       /\ UNCHANGED <<fsVars, portVars, sessVars, limVars, srvVars, renVars>>

StoreNext ==
    \/ \E path \in StorePaths, ok \in BOOLEAN : Mkdir(path, ok)
    \/ \E path \in StorePaths, ok \in BOOLEAN : Write(path, ok)
    \/ \E path \in StorePaths, showHidden \in BOOLEAN, ok \in BOOLEAN :
          List(path, showHidden, ok)
    \/ \E path \in StorePaths, ok \in BOOLEAN : Delete(path, ok)


(***************************************************************************)
(* Specifications.                                                         *)
(***************************************************************************)

(***************************************************************************)
(* The server and its connections: _connections, the command sockets, the  *)
(* listening socket, and the promise jobs of close().  A job runs when it   *)
(* is the head of jobs; sockets give their events when no job is left.      *)
(***************************************************************************)
MaxSessions == 3
Sessions == 1..MaxSessions

ServerInit ==
    server = [connections |-> {},
              socket |-> [i \in Sessions |-> "none"],
              listening |-> "listening",
              jobs |-> <<>>,
              pending |-> 0,
              closing |-> {},
              emitted |-> <<>>]

\* A disconnectClient that takes the entry out and does not close the client.
disconnectClientOnly(sv, id) ==
    IF id \notin sv.connections THEN sv
    ELSE [sv EXCEPT !.connections = @ \ {id}]

\* disconnectClient(id): a client that is not in _connections is left; the
\* entry is deleted, and client.close() queues the job that replies 421,
\* which queues the job that destroys the command socket.
disconnectClientOf(sv, id) ==
    IF id \notin sv.connections THEN sv
    ELSE [sv EXCEPT !.connections = @ \ {id},
                    !.jobs = Append(@, <<"reply", id>>)]

\* The entries of _connections, in the order close() maps over them.
RECURSIVE entries(_)
entries(S) ==
    IF S = {} THEN <<>>
    ELSE LET id == CHOOSE x \in S : \A y \in S : x <= y
         IN  <<id>> \o entries(S \ {id})

RECURSIVE disconnectEach(_, _)
disconnectEach(sv, ids) ==
    IF ids = <<>> THEN sv
    ELSE disconnectEach(disconnectClientOf(sv, Head(ids)), Tail(ids))

\* FtpServer.close(): 'closing' is emitted, disconnectClient runs for every
\* entry, and Promise.all takes the promises, all of them resolved: one job
\* per promise, or the continuation at once when there is none.
FtpServerClose ==
    /\ server.emitted = <<>>
    /\ LET ids == entries(server.connections)
           sv == disconnectEach([server EXCEPT !.emitted = <<"closing">>,
                                               !.closing = server.connections], ids)
       IN  server' =
             IF ids = <<>>
             THEN [sv EXCEPT !.jobs = Append(@, <<"all", 0>>)]
             ELSE [sv EXCEPT !.pending = Len(ids),
                             !.jobs = @ \o [k \in 1..Len(ids) |-> <<"element", ids[k]>>]]
    /\ UNCHANGED <<fsVars, portVars, sessVars, limVars, storeVars, renVars>>

\* The job at the head of the queue.
RunJob ==
    /\ server.jobs # <<>>
    /\ LET job == Head(server.jobs)
           id == job[2]
           sv == [server EXCEPT !.jobs = Tail(@)]
       IN  server' =
             CASE job[1] = "reply" ->
                    \* Connection.close: reply(421) is started, the next
                    \* continuation destroys the socket
                    [sv EXCEPT !.jobs = Append(@, <<"destroy", id>>)]
               [] job[1] = "destroy" ->
                    [sv EXCEPT !.socket[id] = IF @ = "open" THEN "destroyed" ELSE @]
               [] job[1] = "element" ->
                    IF sv.pending = 1
                    THEN [sv EXCEPT !.pending = 0, !.jobs = Append(@, <<"all", 0>>)]
                    ELSE [sv EXCEPT !.pending = @ - 1]
               [] job[1] = "all" ->
                    \* server.close(callback)
                    [sv EXCEPT !.listening = "closing"]
               [] OTHER ->
                    \* emit('closed')
                    [sv EXCEPT !.emitted = Append(@, "closed")]
    /\ UNCHANGED <<fsVars, portVars, sessVars, limVars, storeVars, renVars>>

\* A client connects to the listening socket: serverConnectionHandler sets
\* the new Connection in _connections.
ServerConnect(id) ==
    /\ server.jobs = <<>>
    /\ server.listening = "listening"
    /\ server.socket[id] = "none"
    /\ server' = [server EXCEPT !.socket[id] = "open", !.connections = @ \cup {id}]
    /\ UNCHANGED <<fsVars, portVars, sessVars, limVars, storeVars, renVars>>

\* A command socket is destroyed: by its peer, or by the Connection's close.
ServerSocketDestroy(id) ==
    /\ server.jobs = <<>>
    /\ server.socket[id] = "open"
    /\ server' = [server EXCEPT !.socket[id] = "destroyed"]
    /\ UNCHANGED <<fsVars, portVars, sessVars, limVars, storeVars, renVars>>

\* 'close' of a command socket: the server's listener runs disconnectClient.
ServerSocketClose(id) ==
    /\ server.jobs = <<>>
    /\ server.socket[id] = "destroyed"
    /\ server' = disconnectClientOf([server EXCEPT !.socket[id] = "closed"], id)
    /\ UNCHANGED <<fsVars, portVars, sessVars, limVars, storeVars, renVars>>

\* The callback of server.close: the listening socket has closed and every
\* connection has ended; the promise resolves and its continuation is queued.
ServerClosed ==
    /\ server.jobs = <<>>
    /\ server.listening = "closing"
    /\ \A id \in Sessions : server.socket[id] # "open"
    /\ server' = [server EXCEPT !.listening = "closed",
                                !.jobs = Append(@, <<"emit", 0>>)]
    /\ UNCHANGED <<fsVars, portVars, sessVars, limVars, storeVars, renVars>>

ServerNext ==
    \/ \E id \in Sessions : ServerConnect(id)
    \/ \E id \in Sessions : ServerSocketDestroy(id)
    \/ \E id \in Sessions : ServerSocketClose(id)
    \/ FtpServerClose
    \/ RunJob
    \/ ServerClosed


(***************************************************************************)
(* Renaming: renameFrom of the connection and the paths the file system    *)
(* resolves for RNFR and RNTO under the working directory of the moment.   *)
(***************************************************************************)
MaxNameLen == 2
RenameArgs == {p \in PathArgs : Len(p) <= MaxNameLen}

\* renameFrom is the argument of RNFR (set), verified the fsPath that
\* fs.get resolved for it, source the fsPath that fs.rename resolved for it
\* (moved when storage.move was done with it).
NoRename == [renameFrom |-> <<>>, set |-> FALSE, verified |-> <<>>,
             source |-> <<>>, moved |-> FALSE]

RenameInit == rename = NoRename

\* RNFR: 501 without a file name; fs.get(fileName) (ok) resolves the name
\* under cwd; then renameFrom is set to the name as it came and 350
\* replied, else 550.
Rnfr(fileName, ok) ==
    /\ fsRes.set = FALSE
    /\ rename' =
          IF fileName = <<>> \/ ~ok THEN [rename EXCEPT !.moved = FALSE]
          ELSE [renameFrom |-> fileName, set |-> TRUE,
                verified |-> _resolvePath(fsCwd, fileName).fsPath,
                source |-> <<>>, moved |-> FALSE]
    /\ UNCHANGED <<fsVars, portVars, sessVars, limVars, storeVars, srvVars>>

\* RNTO: 503 without renameFrom or without a name; fs.rename(from, to)
\* resolves from under cwd and moves it (ok), 250 or 550; renameFrom is
\* cleared.
Rnto(to, ok) ==
    /\ fsRes.set = FALSE
    /\ rename.set
    /\ rename' =
          IF to = <<>> THEN [rename EXCEPT !.moved = FALSE]
          ELSE [rename EXCEPT !.renameFrom = <<>>, !.set = FALSE,
                              !.source = _resolvePath(fsCwd, rename.renameFrom).fsPath,
                              !.moved = ok]
    /\ UNCHANGED <<fsVars, portVars, sessVars, limVars, storeVars, srvVars>>

RenameNext ==
    \/ \E path \in RenameArgs, exists \in BOOLEAN : chdir(path, exists)
    \/ \E fileName \in RenameArgs, ok \in BOOLEAN : Rnfr(fileName, ok)
    \/ \E to \in {<<>>, <<"a">>}, ok \in BOOLEAN : Rnto(to, ok)

Init ==
    /\ FsInit /\ PortsInit /\ SessInit /\ AcceptInit /\ FeedInit /\ StoreInit
    /\ ServerInit /\ RenameInit

\* RNFR, RNTO and changes of the working directory.
SpecRename == Init /\ [][RenameNext]_vars

\* The server and its shutdown.
SpecServer == Init /\ [][ServerNext]_vars

FsNext ==
    \/ \E dir \in PathArgs : FsResolve(dir)
    \/ FsReturn
    \/ \E path \in PathArgs, exists \in BOOLEAN : chdir(path, exists)

SpecFs == Init /\ [][FsNext]_vars

\* The file system on the object store.
SpecStore == Init /\ [][StoreNext]_vars

PortsNext ==
    \E r \in Reqs :
        \/ getNextPort(r)
        \/ ProbeListen(r)
        \/ ProbeClose(r)
        \/ DataServerListen(r)
        \/ closeServer(r)

SpecPorts == Init /\ [][PortsNext]_vars

Next ==
    \/ \E cfg \in Configs : serverConnectionHandler(cfg)
    \/ \E m \in Messages : \E ok \in Answers(m), more \in BOOLEAN :
          DataEvent(m, ok, more)
    \/ \E line \in Lines, more \in BOOLEAN : DataLine(line, more)
    \/ DataTooLong
    \/ \E t \in Tasks, m \in Messages : \E ok \in Answers(m), more \in BOOLEAN :
          NextMessage(t, m, ok, more)
    \/ \E t \in Tasks : Poll(t)
    \/ \E t \in Tasks, ok \in Oracle, more \in BOOLEAN : PollAbor(t, ok, more)
    \/ \E t \in Tasks, more \in BOOLEAN : Timeout(t, more)
    \/ \E t \in Tasks, ok \in Oracle, more \in BOOLEAN : Open(t, ok, more)
    \/ \E t \in Tasks, done \in BOOLEAN, more \in BOOLEAN : Settle(t, done, more)
    \/ \E c \in Slots, dataAddr \in DataAddrs : ClientConnect(c, dataAddr)
    \/ \E c \in Slots : IdleTimeout(c)
    \/ \E c \in Slots : ServerClose(c)
    \/ SocketClose
    \/ ProcessLetter
    \/ \E exit \in BOOLEAN : UnhandledRejection(exit)

Spec == Init /\ [][Next]_vars

\* Sessions that set up active data connections and change the transfer
\* parameters, up to the transfer itself.
ActiveNext ==
    \/ \E cfg \in Configs : serverConnectionHandler(cfg)
    \/ \E m \in ActiveMessages : \E ok \in Answers(m), more \in BOOLEAN :
          DataEvent(m, ok, more)
    \/ \E t \in Tasks, m \in ActiveMessages : \E ok \in Answers(m), more \in BOOLEAN :
          NextMessage(t, m, ok, more)
    \/ SocketClose
    \/ ProcessLetter

SpecActive == Init /\ [][ActiveNext]_vars

\* Sessions whose command socket may fail a write.
BrokenNext ==
    \/ Next
    \/ LinkBreaks

SpecBroken == Init /\ [][BrokenNext]_vars

\* The server accepting connections.
AcceptNext ==
    \/ \E addr \in ClientAddrs : connectionAttempt(addr)
    \/ AcceptTick

SpecAccept == Init /\ [][AcceptNext]_vars

\* One session's data events.
FeedNext ==
    \/ \E n \in {1, MaxMessages} : FeedData(n)
    \/ FeedTick
    \/ FeedProcessLetter

SpecFeed == Init /\ [][FeedNext]_vars

\* What the runtime delivers once it is due: timers, polls, completions of
\* file-system calls and of transfers whose data socket is connected,
\* 'close' events, and the writes of replies.
FairSpec ==
    /\ Spec
    /\ \A t \in Tasks :
          /\ WF_vars(Poll(t)
                      \/ (\E ok \in Oracle, more \in BOOLEAN : PollAbor(t, ok, more))
                      \/ (\E more \in BOOLEAN : Timeout(t, more)))
          /\ WF_vars(\E ok \in Oracle, more \in BOOLEAN : Open(t, ok, more))
          /\ WF_vars(\E more \in BOOLEAN : Settle(t, TRUE, more))
    /\ \A c \in Slots : WF_vars(IdleTimeout(c)) /\ WF_vars(ServerClose(c))
    /\ WF_vars(SocketClose)
    /\ WF_vars(ProcessLetter)

\* Sessions that log in, set up passive data connections, transfer and quit.
PassiveMessages ==
    {[dir |-> d, arg |-> 1] : d \in {"USER", "PASS", "PASV", "LIST", "RETR", "QUIT"}}

PassiveNext ==
    \/ \E cfg \in Configs : serverConnectionHandler(cfg)
    \/ \E m \in PassiveMessages : \E ok \in Answers(m), more \in BOOLEAN :
          DataEvent(m, ok, more)
    \/ \E t \in Tasks, m \in PassiveMessages : \E ok \in Answers(m), more \in BOOLEAN :
          NextMessage(t, m, ok, more)
    \/ \E t \in Tasks : Poll(t)
    \/ \E t \in Tasks, more \in BOOLEAN : Timeout(t, more)
    \/ \E t \in Tasks, ok \in Oracle, more \in BOOLEAN : Open(t, ok, more)
    \/ \E t \in Tasks, done \in BOOLEAN, more \in BOOLEAN : Settle(t, done, more)
    \/ \E c \in Slots, dataAddr \in DataAddrs : ClientConnect(c, dataAddr)
    \/ \E c \in Slots : IdleTimeout(c)
    \/ \E c \in Slots : ServerClose(c)
    \/ SocketClose
    \/ ProcessLetter

\* The timers fire, the listeners and sockets close, and mapSeries goes on:
\* the next message of a data event is handed to its handler in the
\* microtasks after the message before it.
FairPassive ==
    /\ Init /\ [][PassiveNext]_vars
    /\ \A t \in Tasks :
          /\ WF_vars(Poll(t) \/ (\E more \in BOOLEAN : Timeout(t, more)))
          /\ WF_vars(\E ok \in Oracle, more \in BOOLEAN : Open(t, ok, more))
          /\ WF_vars(\E more \in BOOLEAN : Settle(t, TRUE, more))
          /\ WF_vars(\E m \in PassiveMessages : \E ok \in Answers(m), more \in BOOLEAN :
                        NextMessage(t, m, ok, more))
    /\ \A c \in Slots : WF_vars(IdleTimeout(c)) /\ WF_vars(ServerClose(c))
    /\ WF_vars(SocketClose)
    /\ WF_vars(ProcessLetter)

UnderPrefix(fsPath) ==
    LET segs == Segments(fsPath) IN
    /\ StartsWith(segs, Segments(bucketPrefix))
    /\ \A i \in 1..Len(segs) : segs[i] # <<".", ".">>

\* C9: every resolved path has a clientPath beginning with '/' and an fsPath
\* under the bucket prefix.
C9_ResolveStaysUnderRoot ==
    fsRes.set => /\ StartsWith(fsRes.clientPath, <<"/">>)
                 /\ UnderPrefix(fsRes.fsPath)


(***************************************************************************)
(* Claims about the session.                                               *)
(***************************************************************************)
\* The directive is refused by the blacklist or by a non-empty whitelist.
Listed(dir) ==
    \/ dir \in connection.blacklist
    \/ (connection.whitelist # {} /\ dir \notin connection.whitelist)

\* A registered directive without no_auth was received while the session
\* was not authenticated.
UnauthenticatedDispatch ==
    /\ connection.dispatched.dir \in REGISTRY
    /\ connection.dispatched.dir \notin (no_auth \cup no_auth_user_prot)
    /\ ~connection.dispatched.authenticated

\* C1 (as stated): a registered directive without no_auth received while the
\* session is not authenticated is answered 530 and its handler is not run.
C1_Unauthenticated530 ==
    UnauthenticatedDispatch => connection.dispatched.outcome = "530"

\* C1 (amended): a registered directive without no_auth received while the
\* session is not authenticated never reaches its handler; it is answered
\* 502 when the blacklist or a non-empty whitelist refuses it, and 530
\* otherwise.
C1_Unauthenticated530Or502 ==
    UnauthenticatedDispatch =>
        connection.dispatched.outcome =
            (IF Listed(connection.dispatched.dir) THEN "502" ELSE "530")

\* C1 witness: after a failed PASS, a directive without no_auth is answered 530.
C1_Witness ==
    /\ UnauthenticatedDispatch
    /\ connection.dispatched.outcome = "530"
    /\ connection.previousCommand = "PASS"
    /\ connection.username /\ ~connection.authenticated
    /\ connection.lastCtrl = 530

\* C2: a STOR, APPE or RETR that wrote 150 leads to the completion of its
\* handler with exactly one terminal reply written, unless the control
\* socket is destroyed.
C2_TerminalReplyAfter150 ==
    \A t \in Tasks :
        (connection.tasks[t].w150 /\ connection.tasks[t].dir \in TransferDirectives)
        ~> \/ /\ connection.completed.task = t
              /\ connection.completed.w150
              /\ connection.completed.term = 1
           \/ connection.destroyed

\* C3: when a STOR, RETR or APPE handler completes, restByteCount is 0.
C3_RestZeroOnCompletion ==
    connection.completed.dir \in TransferDirectives =>
        connection.completed.restByteCount = 0

\* C4: the transfer that follows an accepted REST n, n > 0, opens its stream
\* with start offset n.
C4_NextTransferStartsAtRest ==
    (/\ connection.opened.dir \in TransferDirectives
     /\ connection.opened.previousCommand = "REST"
     /\ connection.opened.restByteCount > 0)
    => connection.opened.start = connection.opened.restByteCount

\* C5: once QUIT is the last command handled and the reply it started is
\* processed, the last reply written on the control socket is 221 and the
\* socket is destroyed.
C5_QuitLastReply221 ==
    (connection.previousCommand = "QUIT" /\ connection.closeLetter = 0)
    => (connection.lastCtrl = 221 /\ connection.destroyed)

\* C6: when an RNTO handler completes, renameFrom is null.
C6_RenameFromNullAfterRnto ==
    connection.completed.dir = "RNTO" => connection.completed.renameFrom = 0

\* The peer of the data socket of connector object c passes the comparison
\* of normalized addresses.
PeerMatches(c) ==
    normalizeAddress(connection.connectors[c].peer)
        = normalizeAddress(connection.remoteAddress)

\* C8: a connector's data socket is one whose normalized peer address equals
\* the normalized address of the control connection, and so is the socket a
\* handler obtained from waitForConnection and the socket an upload is
\* piped from.
C8_AdoptedPeerMatches ==
    /\ \A c \in Slots : connection.connectors[c].sock = "open" => PeerMatches(c)
    /\ \A t \in Tasks :
          \/ connection.tasks[t].pc = "paused"
          \/ (connection.tasks[t].pc = "xfer" /\ connection.tasks[t].piped)
          => PeerMatches(connection.tasks[t].c)

\* C8 witness: an upload is piped from a data socket whose peer address
\* differs from the control connection's as written and equals it once
\* normalized.
C8_Witness ==
    \E t \in Tasks :
        /\ connection.tasks[t].pc = "xfer"
        /\ connection.tasks[t].piped
        /\ connection.connectors[connection.tasks[t].c].sock = "open"
        /\ connection.connectors[connection.tasks[t].c].peer # connection.remoteAddress

\* A transfer or listing handler between obtaining the data socket and
\* calling connector.end().
InFlight(t) == connection.tasks[t].pc \in {"paused", "xfer"}

\* C10: at most one transfer of the session is in flight.
C10_OneInFlight == Cardinality({t \in Tasks : InFlight(t)}) <= 1

(***************************************************************************)
(* Claims about the data connection of a transfer.                         *)
(***************************************************************************)
\* C14: a STOR, APPE, RETR or LIST with its argument, invoked while the
\* session's connector is the base Connector (no PASV before it), is
\* answered 425 and writes no 150.
C14_NoConnector425 ==
    (/\ connection.dispatched.outcome = "handler"
     /\ connection.dispatched.dir \in TransferDirectives \cup ListDirectives
     /\ connection.dispatched.arg # 0
     /\ connection.dispatched.connector = 0
     /\ ~connection.destroyed)
    => (connection.lastCtrl = 425 /\ ~connection.completed.w150)

\* C15: a STOR, APPE or RETR whose waitForConnection timed out on a
\* connector that was set up is answered 425.
C15_Timeout425 ==
    (/\ connection.completed.dir \in TransferDirectives
     /\ connection.completed.err = ConnectionTimeout
     /\ ~connection.destroyed)
    => connection.lastCtrl = 425

(***************************************************************************)
(* Claims about ABOR.                                                      *)
(***************************************************************************)
\* The calls of connector.end() an ABOR handler made.
AborEnds ==
    Cardinality({i \in DOMAIN connection.aborted.log :
                    connection.aborted.log[i].on = "end"})

\* C11: an ABOR whose waitForConnection gave it a data socket writes 426 on
\* that socket, then 226 on the control socket, then calls connector.end();
\* one whose waitForConnection gave none writes 225 on the control socket
\* and then calls connector.end().  (The sockets written to are writable.)
C11_AborReplies ==
    (connection.aborted.done /\ ~connection.destroyed) =>
        IF connection.aborted.socket
        THEN connection.aborted.writable =>
                connection.aborted.log = <<[on |-> "data", code |-> 426],
                                           [on |-> "control", code |-> 226],
                                           [on |-> "end", code |-> 0]>>
        ELSE connection.aborted.log = <<[on |-> "control", code |-> 225],
                                        [on |-> "end", code |-> 0]>>

\* C11 witness: an ABOR that waited for the data connection got the socket
\* and aborted the transfer.
C11_Witness ==
    /\ connection.aborted.done
    /\ connection.aborted.socket /\ connection.aborted.writable
    /\ ~connection.destroyed
    /\ connection.lastCtrl = 226
    /\ connection.dispatched.dir = ""

\* C12: an ABOR handler leaves the control socket as it found it (open, no
\* close started) and the authenticated flag unchanged.
C12_AborKeepsControl ==
    connection.aborted.done =>
        /\ connection.destroyed = connection.aborted.destroyed
        /\ connection.closeLetter = connection.aborted.closeLetter
        /\ connection.authenticated = connection.aborted.authenticated

\* C12 witness: ABOR on an authenticated session with no data connection:
\* 225, the control socket open, the session authenticated.
C12_Witness ==
    /\ connection.aborted.done
    /\ ~connection.aborted.socket
    /\ connection.authenticated
    /\ ~connection.destroyed /\ connection.closeLetter = 0
    /\ connection.lastCtrl = 225

\* C13: every ABOR handler that was invoked resolves (it completes or is
\* still waiting for the data connection; its promise is never rejected),
\* and a completed one has called connector.end() exactly once, whatever
\* waitForConnection gave and whether or not its writes succeeded.
C13_AborEndsOnce ==
    /\ connection.aborted.done =>
          (AborEnds = 1 /\ connection.completed.dir = "ABOR")
    /\ (connection.dispatched.dir = "ABOR" /\ connection.dispatched.outcome = "handler")
          => \/ connection.aborted.done
             \/ \E t \in Tasks : /\ connection.tasks[t].dir = "ABOR"
                                 /\ connection.tasks[t].pc = "wait"

\* C13 witness: an ABOR whose data socket did not take the 426 (reply's
\* catch wrote 451 on the control socket) still wrote 226 and ended the
\* connector once.
C13_Witness ==
    /\ connection.aborted.done
    /\ connection.aborted.socket /\ ~connection.aborted.writable
    /\ AborEnds = 1
    /\ connection.lastCtrl = 226

(***************************************************************************)
(* Claims about the dispatcher.                                            *)
(***************************************************************************)
\* C16: a command whose directive is not registered, is blacklisted or is
\* missing from a non-empty whitelist is answered 502, no handler runs for
\* it, and the control socket and the authenticated flag stay as they were.
C16_Refused502 ==
    LET d == connection.dispatched IN
    (d.dir # "" /\ (d.dir \notin REGISTRY \/ Listed(d.dir))) =>
        /\ d.outcome = "502"
        /\ connection.completed = NoComplete
        /\ connection.authenticated = d.authenticated
        /\ connection.destroyed = d.destroyed
        /\ connection.closeLetter = d.closeLetter
        /\ ~connection.destroyed => connection.lastCtrl = 502

\* C16 witness: an authenticated session with a whitelist is sent a
\* registered directive that the whitelist lacks.
C16_Witness ==
    /\ connection.dispatched.dir \in REGISTRY
    /\ notWhitelisted(connection, connection.dispatched.dir)
    /\ connection.dispatched.outcome = "502"
    /\ connection.authenticated /\ ~connection.destroyed
    /\ connection.lastCtrl = 502

\* C17: when the handler of a dispatched command throws or rejects, a 550
\* or 451 reply is written for the command.
C17_HandlerErrorReplied ==
    (connection.dispatched.outcome = "rejected" /\ ~connection.destroyed)
    => connection.lastCtrl \in {550, 451}

\* C18: a line that the parser rejects (empty, longer than 512, or with a
\* directive of more than 4 characters or with a non-letter) is answered
\* with a reply of the 500 class.
C18_RejectedLineReplied ==
    (connection.dispatched.outcome \in {"dropped", "unparsed"} /\ ~connection.destroyed)
    => connection.lastCtrl \in 500..504

\* C19: a PASS with a password on a session that has a user name and is
\* not authenticated: when the login listener resolves, the session is
\* authenticated, has a file system and is sent 230; when it rejects, the
\* session is not authenticated, has no file system and is sent 530.
C19_PassLogin ==
    LET d == connection.dispatched IN
    (/\ d.dir = "PASS" /\ d.outcome = "handler" /\ d.arg # 0
     /\ connection.username /\ ~d.authenticated)
    => IF d.ok
       THEN /\ connection.authenticated /\ connection.fs
            /\ ~connection.destroyed => connection.lastCtrl = 230
       ELSE /\ ~connection.authenticated /\ ~connection.fs
            /\ ~connection.destroyed => connection.lastCtrl = 530

\* C20: a registered directive that no list refuses, received while the
\* session is not authenticated, reaches its handler exactly when it is
\* one of USER, PASS, QUIT, HELP, FEAT, AUTH, NOOP, PBSZ, PROT and OPTS.
C20_PreAuthDirectives ==
    LET d == connection.dispatched IN
    (d.dir \in REGISTRY /\ ~d.authenticated /\ ~Listed(d.dir)) =>
        (d.outcome \in {"handler", "rejected"}
           <=> d.dir \in {"USER", "PASS", "QUIT", "HELP", "FEAT", "AUTH", "NOOP",
                          "PBSZ", "PROT", "OPTS"})


\* The last step ran the handler of a PORT or EPRT that names a host other
\* than the peer of the command socket, which was open.
ForeignHost ==
    LET d == connection.dispatched IN
    /\ d.outcome = "handler"
    /\ d.dir \in {"PORT", "EPRT"}
    /\ d.arg \in DOMAIN ActiveHosts
    /\ ~d.destroyed
    /\ ~isEqual(connection.remoteAddress, ActiveHosts[d.arg])

\* C21: a PORT or EPRT whose address is not that of the control connection's
\* peer is answered 500, and the server makes no outbound data connection.
C21_ForeignHost500 ==
    ForeignHost =>
        /\ connection.wrote = <<500>>
        /\ connection.connectors[connection.connector].sock = "null"


\* What ALLO has to leave alone in a step: the connector and its objects,
\* authenticated, transferType, encoding and the restart offset.
AlloFrame ==
    /\ connection'.connector = connection.connector
    /\ connection'.connectors = connection.connectors
    /\ connection'.authenticated = connection.authenticated
    /\ connection'.transferType = connection.transferType
    /\ connection'.encoding = connection.encoding
    /\ connection'.restByteCount = connection.restByteCount

AcceptTimes == {n * TickMs : n \in 0..(MaxTime \div TickMs)}

\* The Connections the server made for client k at the times from `from'
\* up to, and not including, from + windowMs.
MadeWithin(k, from) ==
    Cardinality({i \in DOMAIN acceptor.made[k] :
                    /\ from <= acceptor.made[k][i]
                    /\ acceptor.made[k][i] < from + windowMs})

\* C22: within any window of 60 seconds the server makes at most 30
\* Connections for one client address; a socket it refuses is written 421
\* and destroyed, and _connections is as it was.
C22_ConnectionLimit ==
    /\ \A k \in ClientIds, from \in AcceptTimes : MadeWithin(k, from) <= ConnectionLimit
    /\ (acceptor.last.clientIp # <<>> /\ ~acceptor.last.allowed) =>
          /\ acceptor.last.wrote = 421
          /\ acceptor.last.destroyed
          /\ acceptor.connections = acceptor.last.connections
    /\ (acceptor.last.clientIp # <<>> /\ acceptor.last.allowed) =>
          acceptor.connections = acceptor.last.connections + 1

\* The flooding client is refused after the clock has moved, with 30 of its
\* Connections made within the window, while the other client has been
\* served.
C22_Witness ==
    /\ acceptor.last.clientIp = normalize(Flooder)
    /\ ~acceptor.last.allowed
    /\ acceptor.now > 0
    /\ MadeWithin(normalize(Flooder), acceptor.now - TickMs) = ConnectionLimit
    /\ Len(acceptor.made[normalize(Other)]) > 0


\* C23: within a window of 60 seconds no more than 300 messages of a
\* session are handed to a handler; the session that sends more is closed
\* and is sent 421.
C23_CommandLimit ==
    /\ \A time \in FeedTimes : feed.handled[time] <= CommandLimit
    /\ feed.refused => feed.destroyed
    /\ (feed.refused /\ feed.closeLetter = 0) => feed.lastCtrl = 421

(***************************************************************************)
(* Claims about the order of the handlers, the replies and the data        *)
(* connection of one session.                                              *)
(***************************************************************************)
\* C28: no handler of a session is invoked while the handler of a message
\* received before it has not settled, also when the two messages came in
\* separate 'data' events of the command socket.
C28_HandlersInSeries ==
    connection.dispatched.outcome = "handler" => connection.dispatched.running = {}

\* C24: the replies on the command socket are written in the order in which
\* their messages arrived: no reply to a message is written after a reply
\* to a message that arrived later.
C24_RepliesInOrder == ~connection.late

\* The directives whose handlers move bytes on the data socket.
DataDirectives == TransferDirectives \cup ListDirectives

\* C29: within a transfer or listing, 150 is written on the command socket
\* before bytes move on the data socket, and 226 is not written on the
\* command socket while the data socket can still be written to.
C29_TransferBrackets ==
    /\ \A i \in DOMAIN connection.io :
          connection.io[i] = "data" =>
              \/ connection.destroyed
              \/ \E j \in 1..(i - 1) : connection.io[j] = "150"
    /\ (\E i \in DOMAIN connection.io : connection.io[i] = "226") =>
          ~connection.completed.dataWritable

\* C30: when the handler of a transfer or listing has run to its end, the
\* connection's connector is the base Connector, and the connector that
\* gave the handler its data socket has neither the data socket nor a
\* listening server.
C30_ConnectorEnded ==
    (connection.completed.dir \in DataDirectives /\ connection.completed.ran) =>
        /\ connection.connector = 0
        /\ connection.completed.c # 0 =>
              /\ connection.connectors[connection.completed.c].sock = "null"
              /\ connection.connectors[connection.completed.c].srv # "listening"

(***************************************************************************)
(* Claims about directories on the object store.                           *)
(***************************************************************************)
\* list has just returned the directory above the one that the mkdir
\* before it made.
ListedParentOfMade ==
    /\ store.last.op = "list" /\ store.last.ok
    /\ store.made # <<>> /\ store.made # <<"/">>
    /\ store.last.clientPath = <<"/">> \o ParentOf(store.made)

Under(A) ==
    {k \in store.objects : Below(k, _resolvePath(<<"/">>, A).fsPath)}

C31_PausedThenResumed ==
    /\ [](\A t \in Tasks :
            (InFlight(t) /\ connection.tasks[t].dir \in TransferDirectives)
                => connection.paused)
    /\ (connection.paused ~> ~connection.paused)

\* C32: when the write of a reply on the command socket fails, nothing is
\* written on the command socket after it, in that step of the handler or
\* in any later one, neither the reply again nor another, and the command
\* socket is destroyed.
C32_FailedWriteCloses ==
    /\ connection.failed # 0 => Len(connection.wrote) = connection.failed - 1
    /\ (connection.broken /\ connection.failed = 0) => connection.wrote = <<>>
    /\ connection.broken => connection.destroyed

\* The write of the terminal reply of a transfer fails after its 150 was
\* written; the handler ends having written nothing more.
C32_Witness ==
    /\ connection.failed = 1
    /\ connection.wrote = <<>>
    /\ connection.completed.dir \in TransferDirectives
    /\ connection.completed.w150 /\ connection.completed.ran
    /\ connection.destroyed

C34_ShutdownInOrder ==
    /\ server.listening # "listening" =>
          \A id \in server.closing : server.socket[id] # "open"
    /\ Len(server.emitted) = 2 =>
          /\ server.listening = "closed"
          /\ server.connections = {}

\* A shutdown of a server with two sessions in _connections has completed.
C34_Witness ==
    /\ server.emitted = <<"closing", "closed">>
    /\ Cardinality(server.closing) >= 2

\* C35: the idle timer of a passive listener is armed only while the
\* listener listens and has adopted no client, so that it never closes a
\* listener a valid client connected to; an armed timer leads to the
\* listener closed (or a client adopted), and a listener that closes leads
\* to the connection's connector reset to the base Connector.
C35_IdleListenerCloses ==
    /\ [](\A c \in Slots :
            connection.connectors[c].timer =>
                /\ connection.connectors[c].srv = "listening"
                /\ connection.connectors[c].adopted = 0)
    /\ \A c \in Slots :
          connection.connectors[c].timer ~>
              (connection.connectors[c].adopted > 0
               \/ connection.connectors[c].srv # "listening")
    /\ \A c \in Slots :
          (connection.connectors[c].srv = "closing") ~> (connection.connector = 0)

\* A listener no client connected to has been closed by its timer, and its
\* 'close' has reset the connector.
C35_Witness ==
    /\ connection.connector = 0
    /\ connection.lastCtrl = 227
    /\ \E c \in Slots :
          /\ connection.connectors[c] = NoConnector
          /\ \A d \in Slots \ {c} : connection.connectors[d] = NoConnector
    /\ connection.dispatched.dir = ""
    /\ ~connection.destroyed
    /\ connection.authenticated

\* C36: a passive listener adopts at most one inbound connection as the
\* data socket of its connector.
C36_OneAdoption ==
    \A c \in Slots : connection.connectors[c].adopted <= 1

\* A listener has adopted a connection, and its connector has been ended.
C36_Witness ==
    \E c \in Slots :
        /\ connection.connectors[c].adopted = 1
        /\ connection.connectors[c].sock = "null"
        /\ connection.connectors[c].srv = "none"

\* The connection's connector is one that a PASV or PORT set up with
\* success: its listener listens, or it has its data socket.
Installed(s) ==
    /\ s.connector # 0
    /\ \/ s.connectors[s.connector].srv = "listening"
       \/ s.connectors[s.connector].sock = "open"

\* C37: the 'close' of the listener of a connector object that is not the
\* connection's connector leaves the connection's connector as it is: the
\* teardown of an earlier connector never resets the connector that a
\* later PASV or PORT installed with success.
C37_LaterConnectorKept ==
    [][\A c \in Slots :
          (ServerClose(c) /\ Installed(connection) /\ connection.connector # c)
              => connection'.connector = connection.connector]_vars


\* C38: the connection has at most one listening passive data server.
C38_OneListener ==
    Cardinality({c \in Slots : connection.connectors[c].srv = "listening"}) <= 1


\* C39: once the handler of QUIT has run and closed the connection, no
\* step invokes the handler of a later command of the connection.
C39_NothingAfterQuit ==
    [][(connection.previousCommand = "QUIT" /\ connection.destroyed)
          => connection'.dispatched.outcome # "handler"]_vars


\* C40: the path that RNTO moves is the path that RNFR verified.
C40_RenamesVerified ==
    rename.moved => rename.source = rename.verified

=============================================================================
